---- MODULE Spec2Model ----
(***************************************************************************)
(* Model of the QueryEngine class of src/src/div-table.js (lines 3693 to   *)
(* 3863): the record collection it holds, its entry points setObjects,     *)
(* filterObjects and searchObjects, and the expression evaluator           *)
(* (evaluateExpression, processGroup, parseCondition, applyCondition).     *)
(*                                                                         *)
(* Text is a sequence of one-character strings, so that trimming,          *)
(* splitting and the regular expressions of the code are computed          *)
(* character by character.  A JavaScript value is a record                 *)
(*   [t: kind, n: number payload, s: text payload, a: array elements].     *)
(***************************************************************************)
EXTENDS Integers, Sequences, FiniteSets, TLC

\* objects and primaryKeyField are the fields of the engine; pc, op, obj, arg
\* and ret describe the call in progress; lastObjects is the collection most
\* recently given to the engine by its constructor or by setObjects
VARIABLES objects, primaryKeyField, pc, op, obj, arg, ret, lastObjects

\* the fields of the DivTable widget that owns the engine
VARIABLES data, filteredData, selectedRows, currentQuery, multiSelect, pageSize, groupByField

tableVars == <<data, filteredData, selectedRows, currentQuery, multiSelect, pageSize, groupByField>>

\* curExpression is the local variable expression of a call of
\* evaluateExpression that is followed pass by pass
VARIABLES curExpression

rewriteVars == <<curExpression>>

\* the sort state of the widget
VARIABLES sortColumn, sortDirection

sortVars == <<sortColumn, sortDirection>>

\* the paging state of the widget
VARIABLES currentPage, isLoading, hasMoreData

loadVars == <<currentPage, isLoading, hasMoreData>>

\* the options virtualScrolling and totalRecords; the auto-fetch state
\* (autoFetchTimeout holds whether the timer it names is still pending);
\* the calls of onNextPage that have not settled, in the order they were
\* made; the number of pending inter-page timers; whether the continuation
\* of a loop whose page load has settled is queued; the pending timer of
\* init; failedRun records that a page load failed while auto-fetch was
\* running and the user has not acted since
VARIABLES virtualScrolling, totalRecords, isAutoFetching, autoFetchPaused, autoFetchTimeout,
          requests, timers, resumed, startup, failedRun

fetchVars == <<virtualScrolling, totalRecords, isAutoFetching, autoFetchPaused, autoFetchTimeout,
               requests, timers, resumed, startup, failedRun>>

pageVars == <<loadVars, fetchVars>>

\* the widget state that the data and selection handlers leave alone
stateVars == <<sortVars, pageVars>>

\* the variables that the entry points of the engine and the data and
\* selection handlers of the widget leave alone
moreVars == <<rewriteVars, stateVars>>

vars == <<objects, primaryKeyField, pc, op, obj, arg, ret, lastObjects, tableVars, moreVars>>

\* the engine on its own: no widget around it
NoTable ==
  /\ data = <<>>
  /\ filteredData = <<>>
  /\ selectedRows = {}
  /\ currentQuery = <<>>
  /\ multiSelect = TRUE
  /\ pageSize = 1
  /\ groupByField = <<>>

\* no call of evaluateExpression is followed
NoRewrite == curExpression = <<>>

\* the sort state after construction: this.sortColumn = null,
\* this.sortDirection = 'asc'
NoSort ==
  /\ sortColumn = <<>>
  /\ sortDirection = "asc"

\* the paging and auto-fetch state after construction of a widget without
\* virtual scrolling
NoPage ==
  /\ virtualScrolling = FALSE
  /\ totalRecords = Len(data)
  /\ currentPage = 0
  /\ isLoading = FALSE
  /\ hasMoreData = TRUE
  /\ isAutoFetching = FALSE
  /\ autoFetchPaused = FALSE
  /\ autoFetchTimeout = FALSE
  /\ requests = <<>>
  /\ timers = 0
  /\ resumed = FALSE
  /\ startup = "none"
  /\ failedRun = FALSE

NoMore == NoRewrite /\ NoSort /\ NoPage

(***************************************************************************)
(* Characters and character classes of the regular expressions.            *)
(***************************************************************************)
UpperLetters == <<"A","B","C","D","E","F","G","H","I","J","K","L","M",
                  "N","O","P","Q","R","S","T","U","V","W","X","Y","Z">>

LowerLetters == <<"a","b","c","d","e","f","g","h","i","j","k","l","m",
                  "n","o","p","q","r","s","t","u","v","w","x","y","z">>

Digits == <<"0","1","2","3","4","5","6","7","8","9">>

Range(f) == {f[i] : i \in DOMAIN f}

\* \s of the regular expressions
SpaceChars == {" ", "\t"}

IsSpace(c) == c \in SpaceChars

\* \w of the regular expressions
WordChars == Range(UpperLetters) \cup Range(LowerLetters) \cup Range(Digits) \cup {"_"}

IsWord(c) == c \in WordChars

DigitChars == Range(Digits)

IsDigit(c) == c \in DigitChars

LowerOf == [c \in Range(UpperLetters) |->
              LowerLetters[CHOOSE i \in DOMAIN UpperLetters : UpperLetters[i] = c]]

UpperOf == [c \in Range(LowerLetters) |->
              UpperLetters[CHOOSE i \in DOMAIN LowerLetters : LowerLetters[i] = c]]

LowerChar(c) == IF c \in DOMAIN LowerOf THEN LowerOf[c] ELSE c

UpperChar(c) == IF c \in DOMAIN UpperOf THEN UpperOf[c] ELSE c

(***************************************************************************)
(* String.prototype helpers.                                               *)
(***************************************************************************)
ToLowerCase(s) == [i \in 1..Len(s) |-> LowerChar(s[i])]

ToUpperCase(s) == [i \in 1..Len(s) |-> UpperChar(s[i])]

Min(S) == CHOOSE x \in S : \A y \in S : x <= y

Max(S) == CHOOSE x \in S : \A y \in S : x >= y

\* the positions of s where a run of word characters begins
WordStarts(s) == {i \in 1..Len(s) : IsWord(s[i]) /\ (i = 1 \/ ~IsWord(s[i - 1]))}

\* first index >= i of s that holds no white space (Len(s)+1 when none)
SkipSpace(s, i) ==
  Min({j \in i..(Len(s) + 1) : j = Len(s) + 1 \/ ~IsSpace(s[j])})

\* first index >= i of s that holds no word character (Len(s)+1 when none)
SkipWord(s, i) ==
  Min({j \in i..(Len(s) + 1) : j = Len(s) + 1 \/ ~IsWord(s[j])})

Trim(s) ==
  LET keep == {i \in 1..Len(s) : ~IsSpace(s[i])}
  IN  IF keep = {} THEN <<>> ELSE SubSeq(s, Min(keep), Max(keep))

\* s.includes(t)
Includes(s, t) ==
  \E i \in 1..(Len(s) - Len(t) + 1) : SubSeq(s, i, i + Len(t) - 1) = t

StartsAt(s, i, w) ==
  /\ i >= 1
  /\ i + Len(w) - 1 <= Len(s)
  /\ SubSeq(s, i, i + Len(w) - 1) = w

RECURSIVE Concat(_)
Concat(ss) == IF ss = <<>> THEN <<>> ELSE Head(ss) \o Concat(Tail(ss))

RECURSIVE Join(_, _)
Join(ss, sep) ==
  IF ss = <<>> THEN <<>>
  ELSE IF Len(ss) = 1 THEN ss[1]
  ELSE ss[1] \o sep \o Join(Tail(ss), sep)

\* s.replace(/\s+/g, ' ')
RECURSIVE CollapseSpace(_)
CollapseSpace(s) ==
  IF s = <<>> THEN <<>>
  ELSE IF IsSpace(s[1])
    THEN <<" ">> \o CollapseSpace(SubSeq(s, SkipSpace(s, 1), Len(s)))
    ELSE <<s[1]>> \o CollapseSpace(Tail(s))

\* s.split(/\s+/).filter(Boolean)
RECURSIVE SplitSpace(_)
SplitSpace(s) ==
  LET b == SkipSpace(s, 1)
      e == Min({j \in b..(Len(s) + 1) : j = Len(s) + 1 \/ IsSpace(s[j])})
  IN  IF b > Len(s) THEN <<>>
      ELSE <<SubSeq(s, b, e - 1)>> \o SplitSpace(SubSeq(s, e, Len(s)))

\* the positions where w stands between white space: each match of /\s+w\s+/
\* holds exactly one of them
WordBetweenSpace(s, w) ==
  {j \in 2..(Len(s) - Len(w)) :
     IsSpace(s[j - 1]) /\ StartsAt(s, j, w) /\ IsSpace(s[j + Len(w)])}

\* first index of the run of white space that ends before position j
SpaceRunStart(s, j) ==
  Max({0} \cup {m \in 1..(j - 1) : ~IsSpace(s[m])}) + 1

\* s.split(/\s+w\s+/): the leftmost match takes the whole run of white space
\* before w and the whole run after it
RECURSIVE SplitWord(_, _)
SplitWord(s, w) ==
  LET at == WordBetweenSpace(s, w)
  IN  IF at = {} THEN <<s>>
      ELSE LET j == Min(at)
           IN  <<SubSeq(s, 1, SpaceRunStart(s, j) - 1)>>
                 \o SplitWord(SubSeq(s, SkipSpace(s, j + Len(w)), Len(s)), w)

\* s.split(',')
RECURSIVE SplitComma(_)
SplitComma(s) ==
  LET cs == {i \in 1..Len(s) : s[i] = ","}
  IN  IF cs = {} THEN <<s>>
      ELSE <<SubSeq(s, 1, Min(cs) - 1)>> \o SplitComma(SubSeq(s, Min(cs) + 1, Len(s)))

\* s.replace(/"/g, '')
StripQuotes(s) == SelectSeq(s, LAMBDA c : c # "\"")

(***************************************************************************)
(* JavaScript values.                                                      *)
(***************************************************************************)
Null == [t |-> "null", n |-> 0, s |-> <<>>, a |-> <<>>]

Undefined == [t |-> "undefined", n |-> 0, s |-> <<>>, a |-> <<>>]

NaN == [t |-> "nan", n |-> 0, s |-> <<>>, a |-> <<>>]

Str(s) == [t |-> "string", n |-> 0, s |-> s, a |-> <<>>]

Num(n) == [t |-> "number", n |-> n, s |-> <<>>, a |-> <<>>]

Bool(b) == [t |-> "boolean", n |-> IF b THEN 1 ELSE 0, s |-> <<>>, a |-> <<>>]

Arr(a) == [t |-> "array", n |-> 0, s |-> <<>>, a |-> a]

\* decimal digits of a natural number: String(n)
RECURSIVE NatToString(_)
NatToString(n) ==
  IF n < 10 THEN <<Digits[n + 1]>>
  ELSE NatToString(n \div 10) \o <<Digits[(n % 10) + 1]>>

DigitValue(c) == (CHOOSE i \in DOMAIN Digits : Digits[i] = c) - 1

RECURSIVE DigitsToNat(_)
DigitsToNat(s) ==
  IF s = <<>> THEN 0
  ELSE 10 * DigitsToNat(SubSeq(s, 1, Len(s) - 1)) + DigitValue(s[Len(s)])

AllDigits(s) == s # <<>> /\ \A i \in 1..Len(s) : IsDigit(s[i])

\* String(value) for a scalar
ScalarToString(v) ==
  CASE v.t = "string"    -> v.s
    [] v.t = "number"    -> NatToString(v.n)
    [] v.t = "boolean"   -> IF v.n = 1 THEN <<"t","r","u","e">> ELSE <<"f","a","l","s","e">>
    [] v.t = "null"      -> <<"n","u","l","l">>
    [] v.t = "undefined" -> <<"u","n","d","e","f","i","n","e","d">>
    [] v.t = "nan"       -> <<"N","a","N">>

\* String(value): Array.prototype.toString joins the elements with ',' and
\* writes null and undefined elements as the empty string
JsString(v) ==
  IF v.t = "array"
    THEN Join([i \in 1..Len(v.a) |->
                 IF v.a[i].t \in {"null", "undefined"} THEN <<>> ELSE ScalarToString(v.a[i])],
              <<",">>)
    ELSE ScalarToString(v)

HexDigits == <<"0","1","2","3","4","5","6","7","8","9","a","b","c","d","e","f">>

IsHexDigit(c) == LowerChar(c) \in Range(HexDigits)

HexValue(c) == (CHOOSE i \in DOMAIN HexDigits : HexDigits[i] = LowerChar(c)) - 1

RECURSIVE HexToNat(_)
HexToNat(s) ==
  IF s = <<>> THEN 0
  ELSE 16 * HexToNat(SubSeq(s, 1, Len(s) - 1)) + HexValue(s[Len(s)])

\* a hexadecimal integer literal: 0x or 0X and at least one digit
IsHexLiteral(s) ==
  /\ Len(s) > 2
  /\ s[1] = "0"
  /\ s[2] \in {"x", "X"}
  /\ \A i \in 3..Len(s) : IsHexDigit(s[i])

\* Number(text): the texts of the model hold no sign, decimal point or
\* exponent, so a numeric text is a run of digits or a hexadecimal literal
StringToNumber(s) ==
  LET tr == Trim(s)
  IN  IF tr = <<>> THEN Num(0)
      ELSE IF AllDigits(tr) THEN Num(DigitsToNat(tr))
      ELSE IF IsHexLiteral(tr) THEN Num(HexToNat(SubSeq(tr, 3, Len(tr))))
      ELSE NaN

\* Number(value) for a scalar
ToNumber(v) ==
  CASE v.t = "number"    -> v
    [] v.t = "nan"       -> NaN
    [] v.t = "boolean"   -> Num(v.n)
    [] v.t = "string"    -> StringToNumber(v.s)
    [] v.t = "null"      -> Num(0)
    [] v.t = "undefined" -> NaN

\* parseFloat(value): the longest run of digits after leading white space
ParseFloat(v) ==
  LET s == JsString(v)
      b == SkipSpace(s, 1)
      e == Min({j \in b..(Len(s) + 1) : j = Len(s) + 1 \/ ~IsDigit(s[j])})
  IN  IF e > b THEN Num(DigitsToNat(SubSeq(s, b, e - 1))) ELSE NaN

\* x === y (and the SameValueZero of Array.prototype.includes) on scalars;
\* an array is equal only to itself, and no array is compared with itself here
StrictEquals(x, y) == x.t # "nan" /\ x.t # "array" /\ x = y

\* x == y for the scalars string, number, boolean
LooseEquals(x, y) ==
  IF x.t = y.t THEN StrictEquals(x, y)
  ELSE LET nx == ToNumber(x)
           ny == ToNumber(y)
       IN  nx.t = "number" /\ ny.t = "number" /\ nx.n = ny.n

\* x > y with y a number: x is converted with Number(x)
GreaterThan(x, y) ==
  LET nx == ToNumber(x)
  IN  nx.t = "number" /\ y.t = "number" /\ nx.n > y.n

LessThan(x, y) ==
  LET nx == ToNumber(x)
  IN  nx.t = "number" /\ y.t = "number" /\ nx.n < y.n

\* list.includes(x) with == in place of the strict comparison
ArrayIncludes_Loose(list, x) ==
  \E i \in 1..Len(list) :
    IF list[i].t \in {"string", "number", "boolean"} /\ x.t \in {"string", "number", "boolean"}
      THEN LooseEquals(list[i], x)
      ELSE StrictEquals(list[i], x)

\* list.includes(x)
ArrayIncludes(list, x) == \E i \in 1..Len(list) : StrictEquals(list[i], x)

(***************************************************************************)
(* Records: the own properties of an object, in insertion order.           *)
(***************************************************************************)
HasField(o, f) == \E i \in 1..Len(o) : o[i].k = f

\* o[f]
GetField(o, f) ==
  IF HasField(o, f) THEN o[CHOOSE i \in 1..Len(o) : o[i].k = f].v ELSE Undefined

\* Object.values(o)
ObjectValues(o) == [i \in 1..Len(o) |-> o[i].v]

(***************************************************************************)
(* What a call produces: a boolean, a list of values, a text, a parsed     *)
(* condition, or a thrown Error with its message.                          *)
(***************************************************************************)
NoMatch == [ok |-> FALSE, field |-> <<>>, operator |-> "", value |-> Null]

Cond(f, o, v) == [ok |-> TRUE, field |-> f, operator |-> o, value |-> v]

RetBool(b) == [tag |-> "bool", b |-> b, list |-> <<>>, s |-> <<>>, cond |-> NoMatch]

RetList(l) == [tag |-> "list", b |-> FALSE, list |-> l, s |-> <<>>, cond |-> NoMatch]

RetText(s) == [tag |-> "text", b |-> FALSE, list |-> <<>>, s |-> s, cond |-> NoMatch]

RetCond(c) == [tag |-> "cond", b |-> FALSE, list |-> <<>>, s |-> <<>>, cond |-> c]

Throw(m) == [tag |-> "throw", b |-> FALSE, list |-> <<>>, s |-> m, cond |-> NoMatch]

NoRet == [tag |-> "none", b |-> FALSE, list |-> <<>>, s |-> <<>>, cond |-> NoMatch]

NoObj == <<>>

InvalidCondition == <<"I","n","v","a","l","i","d"," ","c","o","n","d","i","t","i","o","n",":"," ">>

QueryError == <<"Q","u","e","r","y"," ","e","r","r","o","r",":"," ">>

(***************************************************************************)
(* parseCondition                                                          *)
(***************************************************************************)
\* index of the first ']' after position k, 0 when there is none
CloseBracket(c, k) ==
  LET cl == {m \in (k + 1)..Len(c) : c[m] = "]"}
  IN  IF cl = {} THEN 0 ELSE Min(cl)

\* /(\w+)\s+IN\s+\[([^\]]+)\]/ matches c starting at i; the leftmost match
\* starts where a run of word characters begins
InMatchAt(c, i) ==
  LET q == SkipWord(c, i)
      j == SkipSpace(c, q)
      k == SkipSpace(c, j + 2)
  IN  /\ IsWord(c[i])
      /\ j > q
      /\ StartsAt(c, j, <<"I","N">>)
      /\ k > j + 2
      /\ k <= Len(c)
      /\ c[k] = "["
      /\ CloseBracket(c, k) > k + 1

\* one item of the IN list
InItem(v) ==
  LET trimmed == StripQuotes(Trim(v))
  IN  IF trimmed = <<"N","U","L","L">> THEN Null ELSE Str(trimmed)

\* condition.match(/(\w+)\s+IN\s+\[([^\]]+)\]/) and the condition built from it
InMatch(c) ==
  LET starts == {i \in WordStarts(c) : InMatchAt(c, i)}
  IN  IF starts = {} THEN NoMatch
      ELSE LET i == Min(starts)
               q == SkipWord(c, i)
               k == SkipSpace(c, SkipSpace(c, q) + 2)
               values == SubSeq(c, k + 1, CloseBracket(c, k) - 1)
               items == SplitComma(values)
           IN  Cond(SubSeq(c, i, q - 1), "IN",
                    Arr([m \in 1..Len(items) |-> InItem(items[m])]))

\* the operator of (=|!=|>|<) at position k of c, "" when none
OperatorAt(c, k) ==
  IF StartsAt(c, k, <<"=">>) THEN "="
  ELSE IF StartsAt(c, k, <<"!","=">>) THEN "!="
  ELSE IF StartsAt(c, k, <<">">>) THEN ">"
  ELSE IF StartsAt(c, k, <<"<">>) THEN "<"
  ELSE ""

OperatorLen(o) == IF o = "!=" THEN 2 ELSE 1

\* /(\w+)\s*(=|!=|>|<)\s*(.+)/i matches c starting at i
CompareMatchAt(c, i) ==
  LET k == SkipSpace(c, SkipWord(c, i))
      o == OperatorAt(c, k)
  IN  /\ IsWord(c[i])
      /\ o # ""
      /\ k + OperatorLen(o) <= Len(c)

\* the value text of the comparison form, coerced
CoerceValue(text) ==
  LET parsedValue == Trim(text)
  IN  IF parsedValue # <<>> /\ Head(parsedValue) = "\"" /\ parsedValue[Len(parsedValue)] = "\""
        THEN Str(SubSeq(parsedValue, 2, Len(parsedValue) - 1))
      ELSE IF parsedValue = <<"N","U","L","L">> THEN Null
      ELSE IF ToLowerCase(parsedValue) = <<"t","r","u","e">> THEN Bool(TRUE)
      ELSE IF ToLowerCase(parsedValue) = <<"f","a","l","s","e">> THEN Bool(FALSE)
      ELSE IF StringToNumber(parsedValue).t = "number" /\ parsedValue # <<>>
        THEN ParseFloat(Str(parsedValue))
      ELSE Str(parsedValue)

\* condition.match(/(\w+)\s*(=|!=|>|<)\s*(.+)/i) and the condition built from it
CompareMatch(c) ==
  LET starts == {i \in WordStarts(c) : CompareMatchAt(c, i)}
  IN  IF starts = {} THEN NoMatch
      ELSE LET i == Min(starts)
               q == SkipWord(c, i)
               k == SkipSpace(c, q)
               o == OperatorAt(c, k)
           IN  Cond(SubSeq(c, i, q - 1), o,
                    CoerceValue(SubSeq(c, k + OperatorLen(o), Len(c))))

\* parseCondition(condition); ok = FALSE stands for the thrown
\* Error("Invalid condition: " + condition)
parseCondition(condition) ==
  LET inMatch == InMatch(condition)
  IN  IF inMatch.ok THEN inMatch ELSE CompareMatch(condition)

(***************************************************************************)
(* applyCondition                                                          *)
(***************************************************************************)
\* a strict null check in place of the nullish test
isNullish_Strict(val) == val.t \in {"null", "undefined"}

isNullish(val) == val.t \in {"null", "undefined"} \/ val = Str(<<>>)

\* case '='
EqualsCase(objValue, value) ==
  IF value.t = "null" THEN isNullish(objValue)
  ELSE IF isNullish(objValue) THEN FALSE
  ELSE IF objValue.t = "array" THEN ArrayIncludes(objValue.a, value)
  ELSE LooseEquals(objValue, value)

\* case '!=' with the nullish return of case '=' copied
NotEqualsCase_NullishFalse(objValue, value) ==
  IF value.t = "null" THEN ~isNullish(objValue)
  ELSE IF isNullish(objValue) THEN FALSE
  ELSE IF objValue.t = "array" THEN ~ArrayIncludes(objValue.a, value)
  ELSE ~LooseEquals(objValue, value)

\* case '!='
NotEqualsCase(objValue, value) ==
  IF value.t = "null" THEN ~isNullish(objValue)
  ELSE IF isNullish(objValue) THEN TRUE
  ELSE IF objValue.t = "array" THEN ~ArrayIncludes(objValue.a, value)
  ELSE ~LooseEquals(objValue, value)

\* case '>' with >= in place of >
GreaterCase_OrEqual(objValue, value) ==
  IF isNullish(objValue) THEN FALSE
  ELSE IF objValue.t = "array" THEN FALSE
  ELSE ~LessThan(objValue, ParseFloat(value))

\* case '>'
GreaterCase(objValue, value) ==
  IF isNullish(objValue) THEN FALSE
  ELSE IF objValue.t = "array" THEN FALSE
  ELSE GreaterThan(objValue, ParseFloat(value))

\* case '<'
LessCase(objValue, value) ==
  IF isNullish(objValue) THEN FALSE
  ELSE IF objValue.t = "array" THEN FALSE
  ELSE LessThan(objValue, ParseFloat(value))

\* case 'IN' without the branch for a list that holds null
InCase_NoNullBranch(objValue, value) ==
  IF isNullish(objValue) THEN FALSE
  ELSE IF objValue.t = "array"
    THEN \E m \in 1..Len(objValue.a) : ArrayIncludes(value.a, objValue.a[m])
  ELSE ArrayIncludes(value.a, objValue)

\* case 'IN'
InCase(objValue, value) ==
  IF ArrayIncludes(value.a, Null)
    THEN isNullish(objValue) \/ ArrayIncludes(value.a, objValue)
  ELSE IF isNullish(objValue) THEN FALSE
  ELSE IF objValue.t = "array"
    THEN \E m \in 1..Len(objValue.a) : ArrayIncludes(value.a, objValue.a[m])
  ELSE ArrayIncludes(value.a, objValue)

applyCondition(o, cond) ==
  LET objValue == IF HasField(o, cond.field) THEN GetField(o, cond.field) ELSE Null
      value == cond.value
  IN  CASE cond.operator = "="  -> EqualsCase(objValue, value)
        [] cond.operator = "!=" -> NotEqualsCase(objValue, value)
        [] cond.operator = ">"  -> GreaterCase(objValue, value)
        [] cond.operator = "<"  -> LessCase(objValue, value)
        [] cond.operator = "IN" -> InCase(objValue, value)
        [] OTHER -> FALSE

(***************************************************************************)
(* processGroup                                                            *)
(***************************************************************************)
TrueText == <<"t","r","u","e">>

FalseText == <<"f","a","l","s","e">>

\* the callback of andConditions.every: one conjunct against the record
EvalParsed(o, condition, parsed) ==
  IF parsed.ok THEN RetBool(applyCondition(o, parsed))
  ELSE Throw(InvalidCondition \o condition)

EvalCondition(o, condition) ==
  LET cond == ToLowerCase(Trim(condition))
  IN  IF cond = FalseText THEN RetBool(FALSE)
      ELSE IF cond = TrueText THEN RetBool(TRUE)
      ELSE EvalParsed(o, condition, parseCondition(condition))

RECURSIVE EveryCondition(_, _, _)
\* some in place of every: true at the first true conjunct
EveryNext_Some(o, andConditions, k, r) ==
  IF r.tag = "throw" THEN r
  ELSE IF r.b THEN RetBool(TRUE)
  ELSE EveryCondition(o, andConditions, k + 1)

\* every after the callback returned r on conjunct k: stops at the first
\* false conjunct, and a throwing conjunct ends the call
EveryNext(o, andConditions, k, r) ==
  IF r.tag = "throw" THEN r
  ELSE IF ~r.b THEN RetBool(FALSE)
  ELSE EveryCondition(o, andConditions, k + 1)

\* andConditions.every(...) from conjunct k on
EveryCondition(o, andConditions, k) ==
  IF k > Len(andConditions) THEN RetBool(TRUE)
  ELSE EveryNext(o, andConditions, k, EvalCondition(o, andConditions[k]))

RECURSIVE SomeGroup(_, _, _)
\* some after the callback returned r on alternative k: stops at the first
\* true alternative
SomeNext(o, orConditions, k, r) ==
  IF r.tag = "throw" THEN r
  ELSE IF r.b THEN RetBool(TRUE)
  ELSE SomeGroup(o, orConditions, k + 1)

\* orConditions.some(...) from alternative k on
SomeGroup(o, orConditions, k) ==
  IF k > Len(orConditions) THEN RetBool(FALSE)
  ELSE SomeNext(o, orConditions, k,
                EveryCondition(o, SplitWord(orConditions[k], <<"A","N","D">>), 1))

processGroup(o, group) == SomeGroup(o, SplitWord(group, <<"O","R">>), 1)

(***************************************************************************)
(* evaluateExpression                                                      *)
(***************************************************************************)
\* where a match of /\(([^()]+)\)/ that starts at i ends, 0 when there is none
GroupEnd(s, i) ==
  LET ps == {m \in (i + 1)..Len(s) : s[m] \in {"(", ")"}}
  IN  IF s[i] = "(" /\ ps # {} /\ s[Min(ps)] = ")" /\ Min(ps) > i + 1
        THEN Min(ps) ELSE 0

\* /\(([^()]+)\)/.test(s)
HasGroup(s) == \E i \in 1..Len(s) : GroupEnd(s, i) # 0

\* s.replace(/\(([^()]+)\)/g, ...): every innermost group, left to right,
\* becomes the text of its value; a throwing group ends the call
RECURSIVE ReplaceGroups(_, _)
\* the replacement that keeps the parentheses around the value
ReplaceGroup_KeepParens(s, i, r, rest) ==
  IF r.tag = "throw" THEN r
  ELSE IF rest.tag = "throw" THEN rest
  ELSE RetText(SubSeq(s, 1, i - 1) \o <<"(">> \o (IF r.b THEN TrueText ELSE FalseText)
                 \o <<")">> \o rest.s)

\* the text with the group that starts at i replaced by its value r, rest
\* being the replaced text after the group
ReplaceGroup(s, i, r, rest) ==
  IF r.tag = "throw" THEN r
  ELSE IF rest.tag = "throw" THEN rest
  ELSE RetText(SubSeq(s, 1, i - 1) \o (IF r.b THEN TrueText ELSE FalseText) \o rest.s)

ReplaceGroups(o, s) ==
  IF ~HasGroup(s) THEN RetText(s)
  ELSE LET i == Min({m \in 1..Len(s) : GroupEnd(s, m) # 0})
           j == GroupEnd(s, i)
       IN  ReplaceGroup(s, i, processGroup(o, SubSeq(s, i + 1, j - 1)),
                        ReplaceGroups(o, SubSeq(s, j + 1, Len(s))))

RECURSIVE RewriteLoop(_, _)
\* an if in place of the while: one pass of replacements
RewriteNext_OnePass(o, r) ==
  IF r.tag = "throw" THEN r ELSE processGroup(o, r.s)

\* the body of the while loop once the replacements gave r
RewriteNext(o, r) ==
  IF r.tag = "throw" THEN r ELSE RewriteLoop(o, r.s)

\* the while loop of evaluateExpression and the final processGroup
RewriteLoop(o, expression) ==
  IF HasGroup(expression)
    THEN RewriteNext(o, ReplaceGroups(o, expression))
    ELSE processGroup(o, expression)

evaluateExpression(o, expression) ==
  IF Trim(expression) = <<>> THEN RetBool(TRUE)
  ELSE RewriteLoop(o, Trim(CollapseSpace(expression)))

(***************************************************************************)
(* searchObjects and filterObjects                                         *)
(***************************************************************************)
\* the keys of the records that have one
AllKeys_Defined(objs, pk) ==
  LET keyed == SelectSeq(objs, LAMBDA o : HasField(o, pk))
  IN  [i \in 1..Len(keyed) |-> GetField(keyed[i], pk)]

\* objects.map(obj => obj[primaryKeyField])
AllKeys(objs, pk) == [i \in 1..Len(objs) |-> GetField(objs[i], pk)]

\* Object.values(obj).map(value => value == null ? '' : String(value).toLowerCase()).join(' ')
SearchableValues(o) ==
  Join([i \in 1..Len(o) |->
          IF o[i].v.t \in {"null", "undefined"} THEN <<>> ELSE ToLowerCase(JsString(o[i].v))],
       <<" ">>)

SearchTerms(searchTerms) == SplitSpace(ToLowerCase(Trim(searchTerms)))

\* some in place of every: one term found is enough
AllTermsFound_AnyTerm(o, terms) ==
  \E m \in 1..Len(terms) : Includes(SearchableValues(o), terms[m])

AllTermsFound(o, terms) ==
  \A m \in 1..Len(terms) : Includes(SearchableValues(o), terms[m])

searchObjects(objs, pk, searchTerms) ==
  LET terms == SearchTerms(searchTerms)
  IN  IF Len(terms) = 0 THEN RetList(AllKeys(objs, pk))
      ELSE RetList(AllKeys(SelectSeq(objs, LAMBDA o : AllTermsFound(o, terms)), pk))

\* \b...\b of /\bAND\b|\bOR\b|\bIN\b/i
WholeWordAt(q, i, w) ==
  /\ StartsAt(ToUpperCase(q), i, w)
  /\ (i = 1 \/ ~IsWord(q[i - 1]))
  /\ (i + Len(w) > Len(q) \/ ~IsWord(q[i + Len(w)]))

\* the test without the word boundaries: /[=!<>()]|AND|OR|IN/i
hasOperators_NoBoundary(query) ==
  \/ \E i \in 1..Len(query) : query[i] \in {"=", "!", "<", ">", "(", ")"}
  \/ \E i \in 1..Len(query) :
       \/ StartsAt(ToUpperCase(query), i, <<"A","N","D">>)
       \/ StartsAt(ToUpperCase(query), i, <<"O","R">>)
       \/ StartsAt(ToUpperCase(query), i, <<"I","N">>)

\* /[=!<>()]|(\bAND\b|\bOR\b|\bIN\b)/i.test(query)
hasOperators(query) ==
  \/ \E i \in 1..Len(query) : query[i] \in {"=", "!", "<", ">", "(", ")"}
  \/ \E i \in 1..Len(query) :
       \/ WholeWordAt(query, i, <<"A","N","D">>)
       \/ WholeWordAt(query, i, <<"O","R">>)
       \/ WholeWordAt(query, i, <<"I","N">>)

RECURSIVE FilterLoop(_, _, _, _, _)
\* the loop with results.unshift in place of results.push
FilterNext_Unshift(objs, pk, query, k, results, r) ==
  IF r.tag = "throw" THEN Throw(QueryError \o r.s)
  ELSE FilterLoop(objs, pk, query, k + 1,
                  IF r.b THEN <<GetField(objs[k], pk)>> \o results ELSE results)

\* a record whose evaluation raises is skipped in place of ending the call
FilterNext_SkipRecord(objs, pk, query, k, results, r) ==
  FilterLoop(objs, pk, query, k + 1,
             IF r.tag = "bool" /\ r.b THEN Append(results, GetField(objs[k], pk)) ELSE results)

\* the body of the for loop once evaluateExpression gave r on record k
FilterNext(objs, pk, query, k, results, r) ==
  IF r.tag = "throw" THEN Throw(QueryError \o r.s)
  ELSE FilterLoop(objs, pk, query, k + 1,
                  IF r.b THEN Append(results, GetField(objs[k], pk)) ELSE results)

\* the for loop of filterObjects from record k on
FilterLoop(objs, pk, query, k, results) ==
  IF k > Len(objs) THEN RetList(results)
  ELSE FilterNext(objs, pk, query, k, results, evaluateExpression(objs[k], query))

filterObjects(objs, pk, query) ==
  IF Trim(query) = <<>> THEN RetList(AllKeys(objs, pk))
  ELSE IF ~hasOperators(query) THEN searchObjects(objs, pk, query)
  ELSE FilterLoop(objs, pk, query, 1, <<>>)

(***************************************************************************)
(* Expressions of the query grammar as trees.  A node is a leaf (a         *)
(* condition text) or a sequence of factors f joined by the operators o,   *)
(* and paren counts the pairs of parentheses written around it.            *)
(***************************************************************************)
LeafNode(text) == [leaf |-> text, paren |-> 0, f |-> <<>>, o |-> <<>>]

SeqNode(f, o) == [leaf |-> <<>>, paren |-> 0, f |-> f, o |-> o]

Wrap(e) == [e EXCEPT !.paren = @ + 1]

\* the factors of exactly n leaves and nesting depth at most d, and the
\* expressions made of them
RECURSIVE FactorsOf(_, _, _), ChainsOf(_, _, _)
FactorsOf(n, d, leaves) ==
  (IF n = 1 THEN {LeafNode(l) : l \in leaves} ELSE {})
    \cup (IF d > 0
            THEN {Wrap(e) : e \in FactorsOf(n, d - 1, leaves)}
                   \cup {Wrap(SeqNode(c.f, c.o)) : c \in {x \in ChainsOf(n, d - 1, leaves) : Len(x.f) > 1}}
            ELSE {})

\* the chains factor (op factor)* of exactly n leaves
ChainsOf(n, d, leaves) ==
  {[f |-> <<x>>, o |-> <<>>] : x \in FactorsOf(n, d, leaves)}
    \cup UNION {{[f |-> <<x>> \o c.f, o |-> <<w>> \o c.o] :
                   x \in FactorsOf(k, d, leaves),
                   w \in {"AND", "OR"},
                   c \in ChainsOf(n - k, d, leaves)} : k \in 1..(n - 1)}

ExprsOf(n, d, leaves) ==
  {IF Len(c.f) = 1 THEN c.f[1] ELSE SeqNode(c.f, c.o) : c \in ChainsOf(n, d, leaves)}

OperatorText(w) == IF w = "AND" THEN <<" ","A","N","D"," ">> ELSE <<" ","O","R"," ">>

RECURSIVE Parens(_, _)
Parens(s, n) == IF n = 0 THEN s ELSE <<"(">> \o Parens(s, n - 1) \o <<")">>

\* the query text of an expression
RECURSIVE Render(_)
Render(e) ==
  LET RECURSIVE Chain(_)
      Chain(k) ==
        IF k = Len(e.f) THEN Render(e.f[k])
        ELSE Render(e.f[k]) \o OperatorText(e.o[k]) \o Chain(k + 1)
  IN  Parens(IF e.f = <<>> THEN e.leaf ELSE Chain(1), e.paren)

\* the OR-alternatives of a chain: the maximal runs of factors joined by AND,
\* as sets of positions
Alternatives(e) ==
  LET starts == {1} \cup {k + 1 : k \in {m \in 1..Len(e.o) : e.o[m] = "OR"}}
  IN  {{k \in s..Len(e.f) : \A m \in s..(k - 1) : e.o[m] = "AND"} : s \in starts}

\* the value of an expression read as a tree: every group is an OR of ANDs of
\* its factors, a leaf has the value of its condition on the record
RECURSIVE TreeValue(_, _)
TreeValue(o, e) ==
  IF e.f = <<>> THEN EvalCondition(o, e.leaf).b
  ELSE \E alt \in Alternatives(e) : \A k \in alt : TreeValue(o, e.f[k])


(***************************************************************************)
(* Bounds and the inputs drawn within them.                                *)
(***************************************************************************)
\* most records of a collection
MaxObjects == 2

\* most conjuncts of a parenthesis-free group
MaxConjuncts == 3

\* most leaves of a nested expression, and its deepest nesting
MaxLeaves == 2

MaxDepth == 2

\* most leaves of a structured query given to filterObjects
MaxQueryLeaves == 2

\* most pieces of a free-text query
MaxPieces == 2

\* most items of an IN list given to applyCondition
MaxItems == 2

Id == <<"i","d">>

Entry(k, v) == [k |-> k, v |-> v]

\* the records of the collections given to the engine
EngineRecords ==
  { <<Entry(Id, Num(1)), Entry(<<"a">>, Null), Entry(<<"t">>, Arr(<<Str(<<"x">>)>>))>>,
    <<Entry(Id, Num(2)), Entry(<<"t">>, Arr(<<>>))>>,
    <<Entry(<<"a">>, Str(<<>>)), Entry(<<"t">>, Arr(<<Str(<<"x">>), Str(<<"y">>)>>))>>,
    <<Entry(Id, Num(4)), Entry(<<"a">>, Str(<<"x","1">>)), Entry(<<"t">>, Undefined)>> }

Collections == UNION {[1..n -> EngineRecords] : n \in 0..MaxObjects}

\* the records the expression evaluator is applied to
ExprRecords ==
  { <<Entry(Id, Num(1)), Entry(<<"a">>, Num(1)), Entry(<<"b">>, Str(<<"x">>))>>,
    <<Entry(Id, Num(2)), Entry(<<"a">>, Num(2))>>,
    <<Entry(Id, Num(3)), Entry(<<"a">>, Null), Entry(<<"b">>, Str(<<"y">>))>> }

\* the values of field a of the records applyCondition is applied to
FieldValues ==
  { Null, Undefined, Str(<<>>), Str(<<"x">>), Str(<<"y">>), Str(<<"1">>), Str(<<"t","r","u","e">>),
    Num(0), Num(1), Num(2), Bool(TRUE), Bool(FALSE),
    Arr(<<>>), Arr(<<Str(<<"x">>)>>), Arr(<<Str(<<"x">>), Str(<<"y">>)>>), Arr(<<Str(<<"1">>)>>),
    Arr(<<Num(1)>>), Arr(<<Num(1), Str(<<"y">>)>>), Arr(<<Null>>), Arr(<<Str(<<>>)>>) }

CondRecords ==
  {<<Entry(Id, Num(1))>>} \cup {<<Entry(Id, Num(1)), Entry(<<"a">>, v)>> : v \in FieldValues}

\* the condition values parseCondition can produce, and the items of a list
CondValues ==
  { Null, Str(<<>>), Str(<<"x">>), Str(<<"y">>), Str(<<"1">>), Num(0), Num(1), Num(2),
    Bool(TRUE), Bool(FALSE) }

ListItems == {Null, Str(<<>>), Str(<<"x">>), Str(<<"1">>), Num(1)}

ValueLists == UNION {[1..n -> ListItems] : n \in 0..MaxItems}

Conditions ==
  {Cond(<<"a">>, o, v) : o \in {"=", "!=", ">", "<", "~"}, v \in CondValues}
    \cup {Cond(<<"a">>, "IN", Arr(l)) : l \in ValueLists}

\* leaf conditions of the grammar
GroupLeaves ==
  { <<"a"," ","="," ","1">>, <<"b"," ","!","="," ","\"","x","\"">>, <<"t","r","u","e">>, <<"f","a","l","s","e">>, <<"b"," ","I","N"," ","[","\"","x","\"",","," ","N","U","L","L","]">> }

NestLeaves == { <<"a"," ","="," ","1">>, <<"f","a","l","s","e">> }

Groups == UNION {ExprsOf(n, 0, GroupLeaves) : n \in 1..MaxConjuncts}

Expressions == UNION {ExprsOf(n, d, NestLeaves) : n \in 1..MaxLeaves, d \in 0..MaxDepth}

\* the comparison operators, by name and as written
CompareOperators ==
  { [name |-> "=", text |-> <<"=">>], [name |-> "!=", text |-> <<"!","=">>],
    [name |-> ">", text |-> <<">">>], [name |-> "<", text |-> <<"<">>] }

\* value texts of the comparison form: quoted, NULL, booleans in several
\* letter cases, decimal and hexadecimal numbers, and plain words
ValueTexts ==
  { <<"\"","x"," ","y","\"">>, <<"N","U","L","L">>, <<"n","u","l","l">>, <<"T","R","U","E">>, <<"F","a","l","s","e">>, <<"1","2">>, <<" ","7"," ">>, <<"0","x","1","0">>, <<"x","1">>, <<"1","2","a">> }

CompareText(f, o, v) == f \o <<" ">> \o o \o <<" ">> \o v

CompareTexts == {CompareText(<<"a">>, o.text, v) : o \in CompareOperators, v \in ValueTexts}

\* texts of neither form
NeitherTexts == { <<"z","z">>, <<"a"," ","A","N","D">>, <<"a"," ","=">>, <<"x"," ","y">>, <<"I","N"," ","[","1","]">>, <<"="," ","1">> }

\* item texts of an IN list: quoted, padded, bare and quoted NULL, a quote
\* inside the text
ItemTexts == { <<"\"","x","\"">>, <<" ","y"," ">>, <<"N","U","L","L">>, <<"\"","N","U","L","L","\"">>, <<"x","\"","y">>, <<" ","\"","a"," ","b","\"">>, <<"1">> }

InText(f, items) == f \o <<" ","I","N"," ","[">> \o Join(items, <<",">>) \o <<"]">>

InTexts == {InText(<<"t">>, items) : items \in UNION {[1..n -> ItemTexts] : n \in 1..MaxItems}}

ConditionTexts ==
  GroupLeaves \cup CompareTexts \cup NeitherTexts \cup InTexts \cup
  { <<"a"," ","="," ","N","U","L","L">>, <<"a"," ","!","="," ","\"","x"," ","y","\"">>, <<"a"," ",">","="," ","1">>, <<"a","<","2">>, <<"a"," ","="," ","T","R","U","E">>, <<"t"," ","I","N"," ","[","x",",","\"","N","U","L","L","\"",","," ","1","]">>,
    <<"a"," ","I","N"," ","[","]">>, <<"a"," ","A","N","D">>, <<"z","z">>, <<"a"," ","=">>, <<"x"," ","y"," ","="," ","1","a">> }

\* queries given to filterObjects
QueryFields == {Id, <<"a">>, <<"t">>, <<"z","z">>}

NullQueries == {f \o <<" ","="," ","N","U","L","L">> : f \in QueryFields}

QueryLeaves == { <<"a"," ","!","="," ","N","U","L","L">>, <<"t"," ","="," ","\"","x","\"">>, <<"z","z">> }

\* queries with a conjunct that does not parse behind a conjunct that decides
\* whether it is reached
FailingQueries == { <<"i","d"," ","="," ","2"," ","O","R"," ","Z","z">>, <<"i","d"," ","="," ","1"," ","A","N","D"," ","Z","z">> }

\* the query `id >= n`
GreaterEqualQuery(n) == <<"i","d"," ",">","="," ">> \o NatToString(n)

GreaterEqualQueries == {GreaterEqualQuery(n) : n \in 1..2}

StructuredQueries ==
  {Render(e) : e \in UNION {ExprsOf(n, 0, QueryLeaves) : n \in 1..MaxQueryLeaves}}
    \cup NullQueries
    \cup FailingQueries
    \cup GreaterEqualQueries
    \cup { <<"i","d"," ","!","="," ","1">>, <<"t"," ","I","N"," ","[","\"","y","\"",","," ","N","U","L","L","]">>, <<"a"," ","="," ","\"","x","1","\""," ","O","R"," ","t"," ","="," ","\"","y","\""," ","A","N","D"," ","i","d"," ",">"," ","1">>,
           <<"(","a"," ","="," ","\"","x","1","\""," ","O","R"," ","t"," ","="," ","\"","y","\"",")"," ","A","N","D"," ","i","d"," ",">"," ","1">>, <<"i","d"," ","<"," ","3"," ","A","N","D"," ","(","z","z",")">>, <<"a"," ","A","N","D">>, <<"(","i","d"," ","="," ","1">>,
           <<"a","<","b">>, <<"x"," ","O","R"," ","1">> }

Pieces == { <<" ">>, <<"x">>, <<"1">>, <<"O","R">> }

FreeTexts == {Concat(ps) : ps \in UNION {[1..n -> Pieces] : n \in 0..MaxPieces}}

SearchTexts ==
  FreeTexts \cup
  { <<" ","\t"," ">>, <<"X"," "," ","y">>, <<"x"," ","1">>, <<"1"," ","x","1">>, <<"a","n","d"," ","x">>, <<"x","1"," ","i","n">>, <<"s","a","n","d">>, <<"x","_","o","r"," ","1">>, <<"y",",">> }

\* literals of a list: a number, quoted strings, a quoted digit
LiteralTexts == { <<"1">>, <<"\"","x","1","\"">>, <<"\"","y","\"">>, <<"\"","1","\"">> }

LiteralFields == {Id, <<"a">>, <<"t">>}

LiteralLists == UNION {[1..n -> LiteralTexts] : n \in 1..MaxItems}

\* the query `f = v`
EqualQuery(f, v) == f \o <<" ","="," ">> \o v

\* the query `f IN [v1, ..., vn]`
InQuery(f, vs) == f \o <<" ","I","N"," ","[">> \o Join(vs, <<",", " ">>) \o <<"]">>

InQueries == {InQuery(f, vs) : f \in LiteralFields, vs \in LiteralLists}

EqualQueries == {EqualQuery(f, v) : f \in LiteralFields, v \in LiteralTexts}

Queries == StructuredQueries \cup SearchTexts \cup InQueries \cup EqualQueries

(***************************************************************************)
(* The engine: construction, setObjects, filterObjects, searchObjects.     *)
(* A call is made when the caller is idle and its outcome is held in ret   *)
(* until the caller takes it.                                              *)
(***************************************************************************)
NoTree == LeafNode(<<>>)

NoArg == [text |-> <<>>, tree |-> NoTree, cond |-> NoMatch, value |-> Undefined, records |-> <<>>]

TextArg(q) == [NoArg EXCEPT !.text = q]

TreeArg(e) == [NoArg EXCEPT !.text = Render(e), !.tree = e]

CondArg(c) == [NoArg EXCEPT !.cond = c]

\* new QueryEngine(objects, primaryKeyField)
Init ==
  /\ objects \in Collections
  /\ primaryKeyField = Id
  /\ pc = "idle"
  /\ op = "none"
  /\ obj = NoObj
  /\ arg = NoArg
  /\ ret = NoRet
  /\ lastObjects = objects
  /\ NoTable
  /\ NoMore

\* setObjects that keeps the collection the engine already holds
SetObjects_Stale(c) ==
  /\ pc = "idle"
  /\ lastObjects' = c
  /\ UNCHANGED <<objects, primaryKeyField, pc, op, obj, arg, ret, tableVars, moreVars>>

SetObjects(c) ==
  /\ pc = "idle"
  /\ objects' = c
  /\ lastObjects' = c
  /\ UNCHANGED <<primaryKeyField, pc, op, obj, arg, ret, tableVars, moreVars>>

FilterObjects(q) ==
  /\ pc = "idle"
  /\ pc' = "done"
  /\ op' = "filterObjects"
  /\ arg' = TextArg(q)
  /\ ret' = filterObjects(objects, primaryKeyField, q)
  /\ UNCHANGED <<objects, primaryKeyField, obj, lastObjects, tableVars, moreVars>>

SearchObjects(q) ==
  /\ pc = "idle"
  /\ pc' = "done"
  /\ op' = "searchObjects"
  /\ arg' = TextArg(q)
  /\ ret' = searchObjects(objects, primaryKeyField, q)
  /\ UNCHANGED <<objects, primaryKeyField, obj, lastObjects, tableVars, moreVars>>

\* the caller takes the outcome of the call
Return ==
  /\ pc = "done"
  /\ pc' = "idle"
  /\ op' = "none"
  /\ arg' = NoArg
  /\ ret' = NoRet
  /\ UNCHANGED <<objects, primaryKeyField, obj, lastObjects, tableVars, moreVars>>

Next ==
  \/ \E c \in Collections : SetObjects(c)
  \/ \E q \in Queries : FilterObjects(q)
  \/ \E q \in SearchTexts : SearchObjects(q)
  \/ Return

Spec == Init /\ [][Next]_vars

(***************************************************************************)
(* The expression evaluator applied to one record.                         *)
(***************************************************************************)
InitExpr ==
  /\ objects = <<>>
  /\ primaryKeyField = Id
  /\ pc = "idle"
  /\ op = "none"
  /\ obj \in ExprRecords
  /\ arg = NoArg
  /\ ret = NoRet
  /\ lastObjects = objects
  /\ NoTable
  /\ NoMore

ProcessGroup(e) ==
  /\ pc = "idle"
  /\ pc' = "done"
  /\ op' = "processGroup"
  /\ arg' = TreeArg(e)
  /\ ret' = processGroup(obj, Render(e))
  /\ UNCHANGED <<objects, primaryKeyField, obj, lastObjects, tableVars, moreVars>>

EvaluateExpression(e) ==
  /\ pc = "idle"
  /\ pc' = "done"
  /\ op' = "evaluateExpression"
  /\ arg' = TreeArg(e)
  /\ ret' = evaluateExpression(obj, Render(e))
  /\ UNCHANGED <<objects, primaryKeyField, obj, lastObjects, tableVars, moreVars>>

NextExpr ==
  \/ \E e \in Groups : ProcessGroup(e)
  \/ \E e \in Expressions : EvaluateExpression(e)
  \/ Return

SpecExpr == InitExpr /\ [][NextExpr]_vars

(***************************************************************************)
(* parseCondition and applyCondition applied to one record.                *)
(***************************************************************************)
InitCond ==
  /\ objects = <<>>
  /\ primaryKeyField = Id
  /\ pc = "idle"
  /\ op = "none"
  /\ obj \in CondRecords
  /\ arg = NoArg
  /\ ret = NoRet
  /\ lastObjects = objects
  /\ NoTable
  /\ NoMore

ParseCondition(text) ==
  /\ pc = "idle"
  /\ pc' = "done"
  /\ op' = "parseCondition"
  /\ arg' = TextArg(text)
  /\ ret' = IF parseCondition(text).ok THEN RetCond(parseCondition(text))
                                       ELSE Throw(InvalidCondition \o text)
  /\ UNCHANGED <<objects, primaryKeyField, obj, lastObjects, tableVars, moreVars>>

ApplyCondition(c) ==
  /\ pc = "idle"
  /\ pc' = "done"
  /\ op' = "applyCondition"
  /\ arg' = CondArg(c)
  /\ ret' = RetBool(applyCondition(obj, c))
  /\ UNCHANGED <<objects, primaryKeyField, obj, lastObjects, tableVars, moreVars>>

NextCond ==
  \/ \E text \in ConditionTexts : ParseCondition(text)
  \/ \E c \in Conditions : ApplyCondition(c)
  \/ Return

SpecCond == InitCond /\ [][NextCond]_vars


(***************************************************************************)
(* evaluateExpression followed pass by pass: the while loop rewrites       *)
(* curExpression until no innermost group is left, then the last           *)
(* processGroup decides.  The call runs to its end once entered: the code  *)
(* is synchronous.                                                         *)
(***************************************************************************)
\* most pieces of an expression given to the loop
MaxTokens == 5

RewritePieces == { <<"(">>, <<")">>, <<"a"," ","="," ","1">>, <<" ","O","R"," ">> }

\* balanced, unbalanced, empty and mis-nested parentheses around conditions
RewriteTexts ==
  {Concat(ps) : ps \in UNION {[1..n -> RewritePieces] : n \in 0..MaxTokens}}
    \cup { <<"(","(","(","a"," ","="," ","1",")"," ","O","R"," ","z","z",")">>, <<")"," ","(","(","a"," ","="," ","1",")",")"," ","(">>, <<"("," "," ","("," ","a"," ","="," ","1"," ",")"," "," ","A","N","D"," "," ","(","b"," ","!","="," ","\"","x","\"",")",")",")"," ","O","R"," ","(">>, <<"(","(","z","z",")"," ","O","R"," ","a"," ","="," ","1",")">> }

InitRewrite ==
  /\ objects = <<>>
  /\ primaryKeyField = Id
  /\ pc = "idle"
  /\ op = "none"
  /\ obj \in ExprRecords
  /\ arg = NoArg
  /\ ret = NoRet
  /\ lastObjects = objects
  /\ NoTable
  /\ NoMore

\* evaluateExpression(obj, text) up to its while loop
EnterEvaluate(text) ==
  /\ pc = "idle"
  /\ op' = "evaluateExpression"
  /\ arg' = TextArg(text)
  /\ IF Trim(text) = <<>>
       THEN /\ pc' = "done"
            /\ ret' = RetBool(TRUE)
            /\ curExpression' = <<>>
       ELSE /\ pc' = "loop"
            /\ ret' = NoRet
            /\ curExpression' = Trim(CollapseSpace(text))
  /\ UNCHANGED <<objects, primaryKeyField, obj, lastObjects, tableVars, stateVars>>

\* the result of a pass: the call fails, or the loop goes on with the
\* rewritten text
PassDone(r) ==
  IF r.tag = "throw"
    THEN /\ pc' = "done"
         /\ ret' = r
         /\ curExpression' = <<>>
    ELSE /\ curExpression' = r.s
         /\ UNCHANGED <<pc, ret>>

\* one pass of the while loop: the test succeeds and every innermost group
\* is replaced
RewritePass ==
  /\ pc = "loop"
  /\ HasGroup(curExpression)
  /\ PassDone(ReplaceGroups(obj, curExpression))
  /\ UNCHANGED <<objects, primaryKeyField, op, obj, arg, lastObjects, tableVars, stateVars>>

\* the test of the while loop fails and the last processGroup decides
FinalGroup ==
  /\ pc = "loop"
  /\ ~HasGroup(curExpression)
  /\ pc' = "done"
  /\ ret' = processGroup(obj, curExpression)
  /\ curExpression' = <<>>
  /\ UNCHANGED <<objects, primaryKeyField, op, obj, arg, lastObjects, tableVars, stateVars>>

NextRewrite ==
  \/ \E text \in RewriteTexts : EnterEvaluate(text)
  \/ RewritePass
  \/ FinalGroup
  \/ Return

SpecRewrite == InitRewrite /\ [][NextRewrite]_vars

\* a step of the loop
LoopStep == RewritePass \/ FinalGroup

\* a call that has entered the loop takes its next step: weak fairness of
\* LoopStep, written out with pc = "loop" for ENABLED <<LoopStep>>_vars (a
\* pass that changes nothing would be no step)
SpecRewriteLive ==
  SpecRewrite /\ ([]<>(pc # "loop") \/ []<><<LoopStep>>_vars)

(***************************************************************************)
(* The DivTable widget (class DivTable of src/src/div-table.js): its       *)
(* records, the records shown after filtering, the selected row ids, the   *)
(* current query, and the QueryEngine it owns (objects, primaryKeyField).  *)
(* Every handler that changes this.data in place calls                     *)
(* queryEngine.setObjects(this.data) before it returns.  Rendering and the *)
(* query editor are left out: they read this state and do not write it.    *)
(***************************************************************************)
\* !value
Falsy(v) ==
  \/ v.t \in {"null", "undefined", "nan"}
  \/ v = Num(0)
  \/ v = Str(<<>>)
  \/ v = Bool(FALSE)

\* String(item[this.primaryKeyField])
RecordId(item, pk) == JsString(GetField(item, pk))

\* this.data.findIndex(item => String(item[pk]) === recordId), 0 standing
\* for -1
FindIndex(d, pk, recordId) ==
  LET found == {i \in 1..Len(d) : RecordId(d[i], pk) = recordId}
  IN  IF found = {} THEN 0 ELSE Min(found)

\* the upsert of addRecord and appendData: replace in place or push
Upsert(d, pk, record) ==
  LET existingIndex == FindIndex(d, pk, RecordId(record, pk))
  IN  IF existingIndex > 0 THEN [d EXCEPT ![existingIndex] = record]
      ELSE Append(d, record)

\* this.data.splice(index, 1)
Splice(d, index) == SubSeq(d, 1, index - 1) \o SubSeq(d, index + 1, Len(d))

\* this.data.filter(obj => filteredIds.includes(obj[pk])), and all of data
\* when filterObjects raised
FilteredBy_NoCatch(d, pk, r) ==
  IF r.tag = "throw" THEN <<>>
  ELSE SelectSeq(d, LAMBDA o : ArrayIncludes(r.list, GetField(o, pk)))

FilteredBy(d, pk, r) ==
  IF r.tag = "throw" THEN d
  ELSE SelectSeq(d, LAMBDA o : ArrayIncludes(r.list, GetField(o, pk)))

\* filteredData after applyQuery(query); the engine filters its own objects
applyQuery(d, objs, pk, query) ==
  IF Trim(query) = <<>> THEN d
  ELSE FilteredBy(d, pk, filterObjects(objs, pk, query))

\* the loop of appendData from record k on; acc holds the data and the
\* counts so far
AppendStep(acc, pk, record) ==
  IF Falsy(GetField(record, pk)) THEN [acc EXCEPT !.skipped = @ + 1]
  ELSE IF FindIndex(acc.data, pk, RecordId(record, pk)) > 0
    THEN [acc EXCEPT !.data = Upsert(acc.data, pk, record), !.updated = @ + 1]
  ELSE [acc EXCEPT !.data = Upsert(acc.data, pk, record), !.added = @ + 1]

RECURSIVE AppendLoop(_, _, _, _)
AppendLoop(acc, pk, newData, k) ==
  IF k > Len(newData) THEN acc
  ELSE AppendLoop(AppendStep(acc, pk, newData[k]), pk, newData, k + 1)

\* the loop of replaceData from record k on: records without a key and
\* records whose id was seen are skipped
RECURSIVE ReplaceLoop(_, _, _, _)
ReplaceLoop(newData, pk, k, validRecords) ==
  IF k > Len(newData) THEN validRecords
  ELSE IF Falsy(GetField(newData[k], pk)) THEN ReplaceLoop(newData, pk, k + 1, validRecords)
  ELSE IF FindIndex(validRecords, pk, RecordId(newData[k], pk)) > 0
    THEN ReplaceLoop(newData, pk, k + 1, validRecords)
  ELSE ReplaceLoop(newData, pk, k + 1, Append(validRecords, newData[k]))

\* the selection after a row toggle (key press or click on the row)
ToggledRow(selected, multi, rowId) ==
  IF rowId \in selected THEN selected \ {rowId}
  ELSE (IF multi THEN selected ELSE {}) \cup {rowId}

\* the selection after the change event of a row checkbox
CheckedRow(selected, multi, rowId, checked) ==
  IF checked THEN (IF multi THEN selected ELSE {}) \cup {rowId}
  ELSE selected \ {rowId}

\* the key of the group of an item in groupData: value ?? '__null__' (the
\* items of the model hold no array in the group field)
GroupKey(item, field) ==
  LET value == GetField(item, field)
  IN  IF value.t \in {"null", "undefined"} THEN Str(<<"_","_","n","u","l","l","_","_">>) ELSE value

\* the ids of the items of a group, as strings
GroupItemIds(d, pk, field, key) ==
  {RecordId(d[i], pk) : i \in {j \in 1..Len(d) : GroupKey(d[j], field) = key}}

\* group.items.forEach: every item of the group selected or deselected
GroupSelection(selected, ids, shouldSelect) ==
  IF shouldSelect THEN selected \cup ids ELSE selected \ ids

\* toggleGroupSelection: select the group unless all of it is selected
ToggledGroup(selected, ids) ==
  GroupSelection(selected, ids, Cardinality(ids \cap selected) < Cardinality(ids))

\* the records, ids and queries given to the widget
MaxData == 2

PageSize == 1

GroupField == <<"g">>

TableRecords ==
  { <<Entry(Id, Num(1)), Entry(GroupField, Str(<<"x">>))>>,
    <<Entry(Id, Str(<<"1">>)), Entry(GroupField, Str(<<"y">>))>>,
    <<Entry(Id, Num(2)), Entry(GroupField, Str(<<"x">>))>>,
    <<Entry(Id, Num(0)), Entry(GroupField, Str(<<"y">>))>> }

TableData == UNION {[1..n -> TableRecords] : n \in 0..MaxData}

\* the batches given to appendData and replaceData: records by ascending
\* number of the id, a record of string id after the record of that number
Rank(record) ==
  LET id == GetField(record, Id)
  IN  IF id.t = "string" THEN 2 * DigitsToNat(id.s) + 1 ELSE 2 * id.n

Batches == {b \in TableData : \A i \in 1..(Len(b) - 1) : Rank(b[i]) < Rank(b[i + 1])}

TableIds == {Null, Num(0), Str(<<"1">>), Num(2), Num(3)}

TableQueries == { <<>>, <<"g", " ", "=", " ", "\"", "x", "\"">>, <<"z", "z", " ", "A", "N", "D">> }

RetRecord(r) == [tag |-> "record", b |-> FALSE, list |-> <<r>>, s |-> <<>>, cond |-> NoMatch]

RecordsArg(rs) == [NoArg EXCEPT !.records = rs]

ValueArg(v) == [NoArg EXCEPT !.value = v]

\* new DivTable(monaco, options) with options.data, options.multiSelect and
\* options.pageSize
DivTable(d, multi, size) ==
  /\ data = d
  /\ filteredData = data
  /\ selectedRows = {}
  /\ currentQuery = <<>>
  /\ multiSelect = multi
  /\ pageSize = size
  /\ groupByField = <<>>
  /\ primaryKeyField = Id
  /\ objects = data
  /\ lastObjects = data
  /\ pc = "idle"
  /\ op = "none"
  /\ obj = NoObj
  /\ arg = NoArg
  /\ ret = NoRet
  /\ NoMore

AddRecord(record) ==
  /\ pc = "idle"
  /\ pc' = "done"
  /\ op' = "addRecord"
  /\ arg' = RecordsArg(<<record>>)
  /\ IF Falsy(GetField(record, primaryKeyField))
       THEN /\ ret' = RetBool(FALSE)
            /\ UNCHANGED <<data, objects, lastObjects, filteredData>>
       ELSE /\ data' = Upsert(data, primaryKeyField, record)
            /\ objects' = data'
            /\ lastObjects' = data'
            /\ filteredData' = applyQuery(data', data', primaryKeyField, currentQuery)
            /\ ret' = RetBool(TRUE)
  /\ UNCHANGED <<primaryKeyField, obj, selectedRows, currentQuery, multiSelect, pageSize, groupByField,
                 moreVars>>

\* removeRecord without the delete from the selection
RemoveRecord_KeepSelected(id) ==
  /\ pc = "idle"
  /\ pc' = "done"
  /\ op' = "removeRecord"
  /\ arg' = ValueArg(id)
  /\ IF id.t \in {"undefined", "null"} \/ FindIndex(data, primaryKeyField, JsString(id)) = 0
       THEN /\ ret' = RetBool(FALSE)
            /\ UNCHANGED <<data, objects, lastObjects, filteredData, selectedRows>>
       ELSE /\ ret' = RetRecord(data[FindIndex(data, primaryKeyField, JsString(id))])
            /\ data' = Splice(data, FindIndex(data, primaryKeyField, JsString(id)))
            /\ selectedRows' = selectedRows
            /\ objects' = data'
            /\ lastObjects' = data'
            /\ filteredData' = applyQuery(data', data', primaryKeyField, currentQuery)
  /\ UNCHANGED <<primaryKeyField, obj, currentQuery, multiSelect, pageSize, groupByField,
                 moreVars>>

RemoveRecord(id) ==
  /\ pc = "idle"
  /\ pc' = "done"
  /\ op' = "removeRecord"
  /\ arg' = ValueArg(id)
  /\ IF id.t \in {"undefined", "null"} \/ FindIndex(data, primaryKeyField, JsString(id)) = 0
       THEN /\ ret' = RetBool(FALSE)
            /\ UNCHANGED <<data, objects, lastObjects, filteredData, selectedRows>>
       ELSE /\ ret' = RetRecord(data[FindIndex(data, primaryKeyField, JsString(id))])
            /\ data' = Splice(data, FindIndex(data, primaryKeyField, JsString(id)))
            /\ selectedRows' = selectedRows \ {JsString(id)}
            /\ objects' = data'
            /\ lastObjects' = data'
            /\ filteredData' = applyQuery(data', data', primaryKeyField, currentQuery)
  /\ UNCHANGED <<primaryKeyField, obj, currentQuery, multiSelect, pageSize, groupByField,
                 moreVars>>

AppendData(newData) ==
  /\ pc = "idle"
  /\ pc' = "done"
  /\ op' = "appendData"
  /\ arg' = RecordsArg(newData)
  /\ LET acc == AppendLoop([data |-> data, added |-> 0, updated |-> 0, skipped |-> 0],
                           primaryKeyField, newData, 1)
     IN  /\ ret' = RetList(<<Num(acc.added), Num(acc.updated), Num(acc.skipped)>>)
         /\ data' = acc.data
         /\ IF acc.added > 0 \/ acc.updated > 0
              THEN /\ objects' = data'
                   /\ lastObjects' = data'
                   /\ filteredData' = applyQuery(data', data', primaryKeyField, currentQuery)
              ELSE UNCHANGED <<objects, lastObjects, filteredData>>
  /\ UNCHANGED <<primaryKeyField, obj, selectedRows, currentQuery, multiSelect, pageSize, groupByField,
                 moreVars>>

ReplaceData(newData) ==
  /\ pc = "idle"
  /\ pc' = "done"
  /\ op' = "replaceData"
  /\ arg' = RecordsArg(newData)
  /\ data' = ReplaceLoop(newData, primaryKeyField, 1, <<>>)
  /\ objects' = data'
  /\ lastObjects' = data'
  /\ filteredData' = applyQuery(data', data', primaryKeyField, currentQuery)
  /\ selectedRows' = {}
  /\ currentPage' = 0
  /\ hasMoreData' = IF virtualScrolling /\ totalRecords # 0 THEN Len(data') < totalRecords
                    ELSE hasMoreData
  /\ ret' = RetBool(TRUE)
  /\ UNCHANGED <<primaryKeyField, obj, currentQuery, multiSelect, pageSize, groupByField,
                 rewriteVars, sortVars, isLoading, fetchVars>>

ResetToLoading ==
  /\ pc = "idle"
  /\ pc' = "done"
  /\ op' = "resetToLoading"
  /\ arg' = NoArg
  /\ data' = <<>>
  /\ filteredData' = <<>>
  /\ selectedRows' = {}
  /\ currentQuery' = <<>>
  /\ objects' = <<>>
  /\ lastObjects' = <<>>
  /\ ret' = NoRet
  /\ UNCHANGED <<primaryKeyField, obj, multiSelect, pageSize, groupByField,
                 moreVars>>

\* the engine is not told of the shortened data
ResetPagination ==
  /\ pc = "idle"
  /\ pc' = "done"
  /\ op' = "resetPagination"
  /\ arg' = NoArg
  /\ data' = SubSeq(data, 1, Min({pageSize, Len(data)}))
  /\ filteredData' = data'
  /\ currentPage' = 0
  /\ isLoading' = FALSE
  /\ hasMoreData' = TRUE
  /\ ret' = NoRet
  /\ UNCHANGED <<objects, lastObjects, primaryKeyField, obj, selectedRows, currentQuery,
                 multiSelect, pageSize, groupByField,
                 rewriteVars, sortVars, fetchVars>>

ApplyQuery(query) ==
  /\ pc = "idle"
  /\ pc' = "done"
  /\ op' = "applyQuery"
  /\ arg' = TextArg(query)
  /\ currentQuery' = query
  /\ filteredData' = applyQuery(data, objects, primaryKeyField, query)
  /\ ret' = NoRet
  /\ UNCHANGED <<objects, lastObjects, primaryKeyField, obj, data, selectedRows,
                 multiSelect, pageSize, groupByField,
                 moreVars>>

\* group(field) on a visible, groupable column, or group(null)
Group(field) ==
  /\ pc = "idle"
  /\ pc' = "done"
  /\ op' = "group"
  /\ arg' = TextArg(field)
  /\ groupByField' = field
  /\ ret' = NoRet
  /\ UNCHANGED <<objects, lastObjects, primaryKeyField, obj, data, filteredData, selectedRows,
                 currentQuery, multiSelect, pageSize,
                 moreVars>>

\* the ids of the rows on screen: one row per item of filteredData
RowIds == {RecordId(filteredData[i], primaryKeyField) : i \in 1..Len(filteredData)}

\* the keys of the group headers on screen; a header is found again by
\* g.key === dataset.groupKey, which only a string key satisfies
GroupKeys ==
  IF groupByField = <<>> THEN {}
  ELSE {k \in {GroupKey(filteredData[i], groupByField) : i \in 1..Len(filteredData)} :
          k.t = "string"}

Select(name, text, selected) ==
  /\ pc = "idle"
  /\ pc' = "done"
  /\ op' = name
  /\ arg' = TextArg(text)
  /\ selectedRows' = selected
  /\ ret' = NoRet
  /\ UNCHANGED <<objects, lastObjects, primaryKeyField, obj, data, filteredData,
                 currentQuery, multiSelect, pageSize, groupByField,
                 moreVars>>

ToggleIndividualRowSelection(rowId) ==
  Select("toggleIndividualRowSelection", rowId, ToggledRow(selectedRows, multiSelect, rowId))

\* the user flips the checkbox of a row, which showed whether it was selected
RowCheckboxChange(rowId) ==
  Select("rowCheckboxChange", rowId,
         CheckedRow(selectedRows, multiSelect, rowId, rowId \notin selectedRows))

ToggleGroupSelection(groupKey) ==
  Select("toggleGroupSelection", groupKey.s,
         ToggledGroup(selectedRows,
                      GroupItemIds(filteredData, primaryKeyField, groupByField, groupKey)))

\* the user flips the checkbox of a group header, which was checked iff every
\* item of the group was selected
GroupCheckboxChange(groupKey) ==
  Select("groupCheckboxChange", groupKey.s,
         GroupSelection(selectedRows,
                        GroupItemIds(filteredData, primaryKeyField, groupByField, groupKey),
                        ~(GroupItemIds(filteredData, primaryKeyField, groupByField, groupKey)
                            \subseteq selectedRows)))

\* data management on a multi-selection table
InitTable == \E d \in TableData : DivTable(d, TRUE, PageSize)

NextTable ==
  \/ \E record \in TableRecords : AddRecord(record)
  \/ \E id \in TableIds : RemoveRecord(id)
  \/ \E newData \in Batches : AppendData(newData)
  \/ \E newData \in Batches : ReplaceData(newData)
  \/ ResetToLoading
  \/ ResetPagination
  \/ \E query \in TableQueries : ApplyQuery(query)
  \/ \E rowId \in RowIds : ToggleIndividualRowSelection(rowId)
  \/ Return

SpecTable == InitTable /\ [][NextTable]_vars

\* selection on a table of fixed data, with and without multiSelect
InitSelect == \E d \in TableData, multi \in BOOLEAN : DivTable(d, multi, PageSize)

NextSelect ==
  \/ \E query \in TableQueries : ApplyQuery(query)
  \/ \E field \in {<<>>, GroupField} : Group(field)
  \/ \E rowId \in RowIds : ToggleIndividualRowSelection(rowId)
  \/ \E rowId \in RowIds : RowCheckboxChange(rowId)
  \/ \E groupKey \in GroupKeys : ToggleGroupSelection(groupKey)
  \/ \E groupKey \in GroupKeys : GroupCheckboxChange(groupKey)
  \/ Return

SpecSelect == InitSelect /\ [][NextSelect]_vars

(***************************************************************************)
(* Sorting.  sort(field, direction) is called with the field of a column   *)
(* and a direction 'asc', 'desc' or none.                                  *)
(***************************************************************************)
SortFields == {Id, GroupField}

SortDirections == {Undefined, Str(<<"a","s","c">>), Str(<<"d","e","s","c">>)}

\* the direction as the widget holds it
DirectionName(v) == IF v = Str(<<"d","e","s","c">>) THEN "desc" ELSE "asc"

Sort(field, direction) ==
  /\ pc = "idle"
  /\ pc' = "done"
  /\ op' = "sort"
  /\ arg' = [TextArg(field) EXCEPT !.value = direction]
  /\ ret' = NoRet
  /\ IF sortColumn = field
       THEN /\ sortDirection' = (IF sortDirection = "asc" THEN "desc" ELSE "asc")
            /\ UNCHANGED sortColumn
       ELSE /\ sortColumn' = field
            /\ sortDirection' = DirectionName(direction)
  /\ UNCHANGED <<objects, primaryKeyField, obj, lastObjects, tableVars, rewriteVars, pageVars>>

InitSort == \E d \in TableData, multi \in BOOLEAN : DivTable(d, multi, PageSize)

NextSort ==
  \/ \E field \in SortFields, direction \in SortDirections : Sort(field, direction)
  \/ \E field \in {<<>>, GroupField} : Group(field)
  \/ Return

SpecSort == InitSort /\ [][NextSort]_vars

(***************************************************************************)
(* Paging and auto-fetch of a widget with virtual scrolling.  A call of    *)
(* onNextPage stays in requests until its promise settles; what runs       *)
(* between two awaits is one step.  The continuation of a loop that        *)
(* awaited a page load is queued when the load settles and runs before     *)
(* any timer or click.  The user scrolls and clicks once the timer of init  *)
(* has fired, 100 ms after construction.                                   *)
(***************************************************************************)
\* the option totalRecords: two pages
TotalRecords == 2 * PageSize

\* the refresh button is clicked while the pages loaded and asked for are
\* below MaxPage
MaxPage == 2

\* the user scrolls and clicks while the calls of onNextPage that have not
\* settled and the loops that wait are fewer than MaxPending
MaxPending == 2

Request(kind, page, awaited) == [kind |-> kind, page |-> page, awaited |-> awaited]

\* the records that onNextPage(page, pageSize) resolves with when it returns
\* n records
PageRecord(id) == <<Entry(Id, Num(id)), Entry(GroupField, Str(<<"x">>))>>

Page(page, size, n) == [k \in 1..n |-> PageRecord(page * size + k)]

\* an empty page, a page one record short, a full page
PageLengths(size) == {0, size - 1, size}

\* the fields that the auto-fetch loop and loadNextPage read and write
PageState ==
  [ currentPage |-> currentPage, isLoading |-> isLoading, hasMoreData |-> hasMoreData,
    isAutoFetching |-> isAutoFetching, autoFetchPaused |-> autoFetchPaused,
    autoFetchTimeout |-> autoFetchTimeout, requests |-> requests, timers |-> timers ]

SetPageState(p) ==
  /\ currentPage' = p.currentPage
  /\ isLoading' = p.isLoading
  /\ hasMoreData' = p.hasMoreData
  /\ isAutoFetching' = p.isAutoFetching
  /\ autoFetchPaused' = p.autoFetchPaused
  /\ autoFetchTimeout' = p.autoFetchTimeout
  /\ requests' = p.requests
  /\ timers' = p.timers

\* stopAutoFetch(): clearTimeout ends the timer that autoFetchTimeout names
stopAutoFetch(p) ==
  [p EXCEPT !.isAutoFetching = FALSE,
            !.autoFetchPaused = FALSE,
            !.timers = IF p.autoFetchTimeout THEN @ - 1 ELSE @,
            !.autoFetchTimeout = FALSE]

\* loadNextPage() up to its await of onNextPage(currentPage + 1, pageSize);
\* awaited tells whether a loop awaits the call
loadNextPage(p, awaited) ==
  IF p.isLoading \/ ~p.hasMoreData THEN p
  ELSE [p EXCEPT !.isLoading = TRUE,
                 !.requests = Append(@, Request("next", p.currentPage + 1, awaited))]

\* await new Promise(resolve => { this.autoFetchTimeout = setTimeout(...) })
Delay(p) == [p EXCEPT !.timers = @ + 1, !.autoFetchTimeout = TRUE]

\* continueAutoFetch() that ends without stopAutoFetch
LoopExit_NoStop(p) == p

\* continueAutoFetch() behind its loop
LoopExit(p) == IF ~p.hasMoreData THEN stopAutoFetch(p) ELSE p

\* continueAutoFetch() from the test of its loop to its next await; a call
\* of loadNextPage that returns at once is followed by the delay
continueAutoFetch(p) ==
  IF p.hasMoreData /\ p.isAutoFetching /\ ~p.autoFetchPaused
    THEN (IF p.isLoading THEN Delay(p) ELSE loadNextPage(p, TRUE))
    ELSE LoopExit(p)

\* continueAutoFetch() behind await this.loadNextPage()
AfterLoad(p) ==
  IF ~p.hasMoreData \/ ~p.isAutoFetching \/ p.autoFetchPaused THEN LoopExit(p) ELSE Delay(p)

\* continueAutoFetch() behind the delay
AfterDelay(p) == IF p.autoFetchPaused THEN LoopExit(p) ELSE continueAutoFetch(p)

startAutoFetch(p, virtual) ==
  IF ~virtual \/ ~p.hasMoreData \/ p.isAutoFetching THEN p
  ELSE continueAutoFetch([p EXCEPT !.isAutoFetching = TRUE, !.autoFetchPaused = FALSE])

\* the click handler of the auto-fetch button
AutoFetchClicked(p, virtual) ==
  IF p.isAutoFetching
    THEN (IF p.autoFetchPaused THEN continueAutoFetch([p EXCEPT !.autoFetchPaused = FALSE])
          ELSE [p EXCEPT !.autoFetchPaused = TRUE])
    ELSE startAutoFetch(p, virtual)

\* hasMoreData after loadNextPage has appended newData
MoreAfter(newData, len, total, size) ==
  IF Len(newData) < size THEN FALSE
  ELSE IF total > 0 THEN len < total
  ELSE Len(newData) = size

\* the loops that have not ended: awaiting a page load, queued behind one,
\* or awaiting a pending timer
Loops ==
  Cardinality({i \in DOMAIN requests : requests[i].awaited}) + (IF resumed THEN 1 ELSE 0) + timers

\* the calls of onNextPage that have not settled and the loops that wait for
\* a timer
Pending == Len(requests) + timers

\* a widget with virtual scrolling and onNextPage: made without data, it
\* loads the first page from a timer; made with the first page, it loads the
\* next page from a timer
InitPage ==
  /\ \E first \in BOOLEAN :
       /\ data = IF first THEN <<>> ELSE Page(0, PageSize, PageSize)
       /\ startup = IF first THEN "first" ELSE "next"
  /\ filteredData = data
  /\ selectedRows = {}
  /\ currentQuery = <<>>
  /\ multiSelect = TRUE
  /\ pageSize = PageSize
  /\ groupByField = <<>>
  /\ primaryKeyField = Id
  /\ objects = data
  /\ lastObjects = data
  /\ pc = "idle"
  /\ op = "none"
  /\ obj = NoObj
  /\ arg = NoArg
  /\ ret = NoRet
  /\ NoRewrite
  /\ NoSort
  /\ virtualScrolling = TRUE
  /\ totalRecords = TotalRecords
  /\ currentPage = 0
  /\ isLoading = FALSE
  /\ hasMoreData = TRUE
  /\ isAutoFetching = FALSE
  /\ autoFetchPaused = FALSE
  /\ autoFetchTimeout = FALSE
  /\ requests = <<>>
  /\ timers = 0
  /\ resumed = FALSE
  /\ failedRun = FALSE

\* what no step of paging changes
pageFixed ==
  <<primaryKeyField, pc, op, obj, arg, ret, currentQuery, multiSelect, pageSize, groupByField,
    rewriteVars, sortVars, virtualScrolling, totalRecords>>

dataVars == <<data, filteredData, selectedRows, objects, lastObjects>>

\* the timer of init fires: loadFirstPageAutomatically() up to its await, or
\* loadNextPage()
StartupTimer ==
  /\ ~resumed
  /\ startup # "none"
  /\ startup' = "none"
  /\ IF startup = "first"
       THEN SetPageState([PageState EXCEPT !.isLoading = TRUE,
                                           !.requests = Append(@, Request("first", 0, FALSE))])
       ELSE SetPageState(loadNextPage(PageState, FALSE))
  /\ UNCHANGED <<pageFixed, dataVars, resumed, failedRun>>

\* a scroll near the end of the loaded rows, or a click on Retry
Scroll ==
  /\ ~resumed
  /\ hasMoreData /\ ~isLoading
  /\ startup = "none"
  /\ Pending < MaxPending
  /\ SetPageState(loadNextPage(PageState, FALSE))
  /\ failedRun' = FALSE
  /\ UNCHANGED <<pageFixed, dataVars, resumed, startup>>

\* a click on the refresh button, up to its await of onNextPage(0, pageSize)
RefreshClick ==
  /\ ~resumed
  /\ startup = "none"
  /\ Pending < MaxPending
  /\ currentPage < MaxPage
  /\ \A i \in DOMAIN requests : requests[i].page < MaxPage
  /\ LET stopped == IF isAutoFetching THEN stopAutoFetch(PageState) ELSE PageState
     IN  SetPageState([stopped EXCEPT !.currentPage = 0,
                                      !.isLoading = TRUE,
                                      !.hasMoreData = TRUE,
                                      !.requests = Append(@, Request("refresh", 0, FALSE))])
  /\ data' = <<>>
  /\ filteredData' = <<>>
  /\ selectedRows' = {}
  /\ objects' = <<>>
  /\ lastObjects' = <<>>
  /\ failedRun' = FALSE
  /\ UNCHANGED <<pageFixed, resumed, startup>>

\* a click on the auto-fetch button: start, pause or resume
AutoFetchClick ==
  /\ ~resumed
  /\ startup = "none"
  /\ Pending < MaxPending
  /\ SetPageState(AutoFetchClicked(PageState, virtualScrolling))
  /\ failedRun' = FALSE
  /\ UNCHANGED <<pageFixed, dataVars, resumed, startup>>

\* the promise of requests[i] resolves with n records: the rest of
\* loadNextPage, of loadFirstPageAutomatically or of the refresh handler
Resolve(i, n) ==
  /\ ~resumed
  /\ LET r == requests[i]
         newData == Page(r.page, pageSize, n)
         p == [PageState EXCEPT !.requests = Splice(@, i), !.isLoading = FALSE]
     IN  IF r.kind = "next"
           THEN /\ resumed' = r.awaited
                /\ IF n > 0
                     THEN LET acc == AppendLoop([data |-> data, added |-> 0, updated |-> 0, skipped |-> 0],
                                                primaryKeyField, newData, 1)
                          IN  /\ data' = acc.data
                              /\ IF acc.added > 0 \/ acc.updated > 0
                                   THEN /\ objects' = data'
                                        /\ lastObjects' = data'
                                        /\ filteredData' = applyQuery(data', data', primaryKeyField, currentQuery)
                                   ELSE UNCHANGED <<objects, lastObjects, filteredData>>
                              /\ UNCHANGED selectedRows
                              /\ SetPageState([p EXCEPT !.currentPage = IF acc.added > 0 \/ acc.updated > 0
                                                                          THEN r.page ELSE @,
                                                        !.hasMoreData = MoreAfter(newData, Len(acc.data),
                                                                                  totalRecords, pageSize)])
                     ELSE /\ SetPageState([p EXCEPT !.hasMoreData = FALSE])
                          /\ UNCHANGED dataVars
           ELSE /\ UNCHANGED resumed
                /\ IF n > 0
                     THEN /\ data' = ReplaceLoop(newData, primaryKeyField, 1, <<>>)
                          /\ objects' = data'
                          /\ lastObjects' = data'
                          /\ filteredData' = applyQuery(data', data', primaryKeyField, currentQuery)
                          /\ selectedRows' = {}
                          /\ SetPageState([p EXCEPT !.currentPage = 0,
                                                    !.hasMoreData = IF totalRecords # 0
                                                                      THEN Len(data') < totalRecords ELSE @])
                     ELSE /\ SetPageState([p EXCEPT !.hasMoreData = IF r.kind = "first" THEN FALSE ELSE @])
                          /\ UNCHANGED dataVars
  /\ UNCHANGED <<pageFixed, startup, failedRun>>

\* the promise of requests[i] rejects: the catch of loadNextPage, of
\* loadFirstPageAutomatically or of the refresh handler
Reject(i) ==
  /\ ~resumed
  /\ LET r == requests[i]
         p == [PageState EXCEPT !.requests = Splice(@, i)]
     IN  /\ resumed' = (r.kind = "next" /\ r.awaited)
         /\ failedRun' = (failedRun \/ (r.kind = "next" /\ isAutoFetching))
         /\ SetPageState(IF r.kind = "next" THEN [p EXCEPT !.isLoading = FALSE]
                         ELSE IF r.kind = "first" THEN [p EXCEPT !.isLoading = FALSE, !.hasMoreData = FALSE]
                         ELSE p)
  /\ UNCHANGED <<pageFixed, dataVars, startup>>

\* the loop whose page load has settled goes on
LoopAfterLoad ==
  /\ resumed
  /\ resumed' = FALSE
  /\ SetPageState(AfterLoad(PageState))
  /\ UNCHANGED <<pageFixed, dataVars, startup, failedRun>>

\* the oldest pending timer fires and its loop goes on
TimerFires ==
  /\ ~resumed
  /\ timers > 0
  /\ SetPageState(AfterDelay([PageState EXCEPT !.timers = @ - 1,
                                               !.autoFetchTimeout = IF timers = 1 THEN FALSE ELSE @]))
  /\ UNCHANGED <<pageFixed, dataVars, resumed, startup, failedRun>>

Settle ==
  \/ \E i \in DOMAIN requests, n \in PageLengths(pageSize) : Resolve(i, n)
  \/ \E i \in DOMAIN requests : Reject(i)

NextPage ==
  \/ StartupTimer
  \/ Scroll
  \/ RefreshClick
  \/ AutoFetchClick
  \/ Settle
  \/ LoopAfterLoad
  \/ TimerFires

SpecPage == InitPage /\ [][NextPage]_vars

\* a queued continuation runs, a pending timer fires, and a call of
\* onNextPage settles.  A timer that fires while a page is loading is set
\* again at once, which leaves the state as it was, so the timers are given
\* strong fairness.
SpecPageLive ==
  SpecPage /\ WF_vars(LoopAfterLoad) /\ SF_vars(TimerFires) /\ WF_vars(StartupTimer) /\ WF_vars(Settle)

(***************************************************************************)
(* Properties of filterObjects (specification Spec).                       *)
(***************************************************************************)
Returned(name) == pc = "done" /\ op = name

\* the text is empty or holds white space only
Blank(q) == \A i \in 1..Len(q) : q[i] \in SpaceChars

\* the maximal runs of word characters of q
WholeWords(q) == {SubSeq(q, i, SkipWord(q, i) - 1) : i \in WordStarts(q)}

\* none of the characters = ! < > ( ) and none of the whole words AND, OR, IN
PlainText(q) ==
  /\ \A i \in 1..Len(q) : q[i] \notin {"=", "!", "<", ">", "(", ")"}
  /\ \A w \in WholeWords(q) : ToUpperCase(w) \notin { <<"A","N","D">>, <<"O","R">>, <<"I","N">> }

\* the records of the collection that satisfy Keep, projected on the key
KeysOf(Keep(_)) == AllKeys(SelectSeq(objects, Keep), primaryKeyField)

\* C1: for every collection, filterObjects with an empty or white-space-only
\* query does not raise and returns the primary-key value of every record,
\* one entry per record, in collection order.
C1_BlankQueryAllKeys ==
  (Returned("filterObjects") /\ Blank(arg.text)) =>
    /\ ret.tag = "list"
    /\ Len(ret.list) = Len(objects)
    /\ \A i \in 1..Len(objects) : ret.list[i] = GetField(objects[i], primaryKeyField)

\* a white-space-only query on two records, one of them without the key
C1_Witness ==
  /\ Returned("filterObjects")
  /\ Blank(arg.text) /\ arg.text # <<>>
  /\ Len(objects) = 2
  /\ HasField(objects[1], primaryKeyField) /\ ~HasField(objects[2], primaryKeyField)

\* C2: when a structured query evaluates without error on every record,
\* filterObjects returns the keys of exactly the records on which the
\* expression is true, in collection order, with one entry (undefined when the
\* key is missing) per matching record.
C2_StructuredQueryMatches ==
  (/\ Returned("filterObjects")
   /\ ~Blank(arg.text) /\ ~PlainText(arg.text)
   /\ \A i \in 1..Len(objects) : evaluateExpression(objects[i], arg.text).tag = "bool") =>
    /\ ret.tag = "list"
    /\ ret.list = KeysOf(LAMBDA o : evaluateExpression(o, arg.text).b)
    /\ Len(ret.list) =
         Cardinality({i \in 1..Len(objects) : evaluateExpression(objects[i], arg.text).b})

\* a structured query that selects one record of two, the selected record
\* having no key
C2_Witness ==
  /\ Returned("filterObjects")
  /\ ~Blank(arg.text) /\ ~PlainText(arg.text)
  /\ Len(objects) = 2
  /\ ret.tag = "list"
  /\ ret.list = <<Undefined>>

\* C3: for every non-empty query text without the characters = ! < > ( ) and
\* without the whole words AND, OR, IN in any letter case, filterObjects does
\* not raise and returns what searchObjects returns for the same text.
C3_PlainTextIsSearch ==
  (Returned("filterObjects") /\ arg.text # <<>> /\ PlainText(arg.text)) =>
    /\ ret.tag = "list"
    /\ ret = searchObjects(objects, primaryKeyField, arg.text)

\* a text that holds OR inside a longer word, searched in a non-empty
\* collection
C3_Witness ==
  /\ Returned("filterObjects")
  /\ PlainText(arg.text)
  /\ Includes(arg.text, <<"O","R">>)
  /\ objects # <<>>
  /\ ret.tag = "list"

\* the field of the record is null, undefined, the empty string, or missing
FieldNullish(o, f) ==
  \/ ~HasField(o, f)
  \/ GetField(o, f) \in {Null, Undefined, Str(<<>>)}

\* C6: for every collection and field f, the query `f = NULL` selects exactly
\* the records whose field f is null, undefined, missing or the empty string.
C6_EqualsNullSelectsNullish ==
  \A f \in QueryFields :
    (Returned("filterObjects") /\ arg.text = f \o <<" ","="," ","N","U","L","L">>) =>
      /\ ret.tag = "list"
      /\ ret.list = KeysOf(LAMBDA o : FieldNullish(o, f))

\* `a = NULL` on a record holding the empty string and a record holding a
\* value: only the first is selected
C6_Witness ==
  /\ Returned("filterObjects")
  /\ arg.text = <<"a"," ","="," ","N","U","L","L">>
  /\ Len(objects) = 2
  /\ HasField(objects[1], <<"a">>) /\ GetField(objects[1], <<"a">>) = Str(<<>>)
  /\ ~FieldNullish(objects[2], <<"a">>)
  /\ Len(ret.list) = 1

(***************************************************************************)
(* Properties of processGroup and evaluateExpression (SpecExpr).           *)
(***************************************************************************)
\* C4: for every record and every parenthesis-free group of conditions joined
\* by ' AND ' and ' OR ', processGroup is true iff some OR-alternative has all
\* of its AND-conjuncts true; so `a OR b AND c` is a OR (b AND c).
C4_GroupIsOrOfAnds ==
  Returned("processGroup") =>
    LET group == IF arg.tree.f = <<>> THEN SeqNode(<<arg.tree>>, <<>>) ELSE arg.tree
    IN  ret = RetBool(\E alt \in Alternatives(group) :
                        \A k \in alt : EvalCondition(obj, group.f[k].leaf).b)

\* `a OR b AND c` with a true and c false: true, where (a OR b) AND c is false
C4_Witness ==
  /\ Returned("processGroup")
  /\ arg.tree.o = <<"OR", "AND">>
  /\ EvalCondition(obj, arg.tree.f[1].leaf).b
  /\ ~EvalCondition(obj, arg.tree.f[3].leaf).b
  /\ ret = RetBool(TRUE)

FieldValue == IF HasField(obj, arg.cond.field) THEN GetField(obj, arg.cond.field) ELSE Null

Nullish(x) == x \in {Null, Undefined, Str(<<>>)}

\* the items of a value list
Members(list) == {list[i] : i \in 1..Len(list)}

\* C7: for every record, field and condition value, applyCondition with `!=`
\* returns the negation of applyCondition with `=` on the same field and value.
C7_NotEqualsNegatesEquals ==
  (Returned("applyCondition") /\ arg.cond.operator = "!=") =>
    ret = RetBool(~applyCondition(obj, [arg.cond EXCEPT !.operator = "="]))

\* `!=` with a value that is not null on a record whose field is nullish: true
C7_Witness ==
  /\ Returned("applyCondition")
  /\ arg.cond.operator = "!="
  /\ arg.cond.value # Null
  /\ Nullish(FieldValue)
  /\ ret = RetBool(TRUE)

\* C8: on an array-valued field and a condition value v that is not null, `=`
\* is true iff the array contains v and `!=` is true iff it does not.
C8_ArrayEqualsIsMembership ==
  (/\ Returned("applyCondition")
   /\ arg.cond.operator \in {"=", "!="}
   /\ FieldValue.t = "array"
   /\ arg.cond.value # Null) =>
    ret = RetBool((arg.cond.operator = "=") <=> (arg.cond.value \in Members(FieldValue.a)))

\* `=` with the text "1" on the array [1]: the array holds the number, not the
\* text, so the condition is false
C8_Witness ==
  /\ Returned("applyCondition")
  /\ arg.cond.operator = "="
  /\ FieldValue = Arr(<<Num(1)>>)
  /\ arg.cond.value = Str(<<"1">>)
  /\ ret = RetBool(FALSE)

\* C9: for a scalar or nullish field value x and an IN list L: when L holds
\* null, the condition is true iff x is nullish or a member of L; when it does
\* not, the condition is true iff x is not nullish and a member of L.
C9_InOnScalars ==
  (/\ Returned("applyCondition")
   /\ arg.cond.operator = "IN"
   /\ FieldValue.t # "array") =>
    LET L == Members(arg.cond.value.a)
    IN  ret = RetBool(IF Null \in L THEN Nullish(FieldValue) \/ FieldValue \in L
                                    ELSE ~Nullish(FieldValue) /\ FieldValue \in L)

\* a list with null and another item on a record whose field is the empty
\* string: true
C9_Witness ==
  /\ Returned("applyCondition")
  /\ arg.cond.operator = "IN"
  /\ FieldValue = Str(<<>>)
  /\ arg.cond.value.a = <<Str(<<"x">>), Null>>
  /\ ret = RetBool(TRUE)

\* C10: on an array-valued field and every IN list L, with or without null in
\* L, the IN condition is true iff some element of the array is a member of L.
C10_InOnArrays ==
  (/\ Returned("applyCondition")
   /\ arg.cond.operator = "IN"
   /\ FieldValue.t = "array") =>
    ret = RetBool(\E m \in 1..Len(FieldValue.a) : FieldValue.a[m] \in Members(arg.cond.value.a))


\* C11: for `>` and `<` the condition is false whenever the field is nullish
\* or array-valued; for a numeric field value x and a numeric condition value
\* n, `>` is true iff x > n and `<` is true iff x < n, so the two are never
\* both true and both are false when x = n.
C11_OrderComparisons ==
  (Returned("applyCondition") /\ arg.cond.operator \in {">", "<"}) =>
    /\ (Nullish(FieldValue) \/ FieldValue.t = "array") => ret = RetBool(FALSE)
    /\ (FieldValue.t = "number" /\ arg.cond.value.t = "number") =>
         /\ ret = RetBool(IF arg.cond.operator = ">"
                            THEN FieldValue.n > arg.cond.value.n
                            ELSE FieldValue.n < arg.cond.value.n)
         /\ ~(/\ applyCondition(obj, [arg.cond EXCEPT !.operator = ">"])
              /\ applyCondition(obj, [arg.cond EXCEPT !.operator = "<"]))
         /\ (FieldValue.n = arg.cond.value.n) => ret = RetBool(FALSE)

\* `>` with the value 1 on a record whose field is the number 1: false
C11_Witness ==
  /\ Returned("applyCondition")
  /\ arg.cond.operator = ">"
  /\ FieldValue = Num(1)
  /\ arg.cond.value = Num(1)
  /\ ret = RetBool(FALSE)

(***************************************************************************)
(* Properties of the failures of filterObjects (specification Spec).       *)
(***************************************************************************)
\* the query with every parenthesis read as a space
NoParens(q) == [i \in 1..Len(q) |-> IF q[i] \in {"(", ")"} THEN " " ELSE q[i]]

\* the leaf conjuncts of a query: the texts between the parentheses and the
\* separators OR and AND
LeafConjuncts(q) ==
  LET alternatives == SplitWord(Trim(CollapseSpace(NoParens(q))), <<"O","R">>)
  IN  UNION {Members(SplitWord(alternatives[i], <<"A","N","D">>)) : i \in 1..Len(alternatives)}

\* a conjunct that is neither the literal true or false nor a condition
\* parseCondition accepts
BadConjunct(c) ==
  /\ ToLowerCase(Trim(c)) \notin {TrueText, FalseText}
  /\ ~parseCondition(c).ok

\* C12: whenever a structured query holds a leaf conjunct that is neither a
\* literal nor parseable, filterObjects raises, for every collection and
\* whatever the other conjuncts evaluate to.
C12_BadConjunctRaises ==
  (/\ Returned("filterObjects")
   /\ ~Blank(arg.text) /\ ~PlainText(arg.text)
   /\ \E c \in LeafConjuncts(arg.text) : BadConjunct(c)) =>
    ret.tag = "throw"

\* the records on which evaluating the query raises
RaisingRecords(objs, q) ==
  {i \in 1..Len(objs) : evaluateExpression(objs[i], q).tag = "throw"}

\* C13: if evaluating the expression raises for any record of the collection,
\* filterObjects raises "Query error: " followed by the underlying message,
\* which is "Invalid condition: " and the text of the offending conjunct in
\* its original letter case; no list is returned even when earlier records
\* matched, and the collection and the key field of the engine are unchanged.
C13_RaiseWrapsCause ==
  [][(/\ pc = "idle"
      /\ op' = "filterObjects"
      /\ ~Blank(arg'.text) /\ ~PlainText(arg'.text)
      /\ RaisingRecords(objects, arg'.text) # {}) =>
       /\ ret'.tag = "throw"
       /\ ret'.s = QueryError \o
                     evaluateExpression(objects[Min(RaisingRecords(objects, arg'.text))], arg'.text).s
       /\ \E c \in LeafConjuncts(arg'.text) :
            BadConjunct(c) /\ ret'.s = QueryError \o InvalidCondition \o c
       /\ objects' = objects
       /\ primaryKeyField' = primaryKeyField]_vars

\* the first record matches and the second raises on a conjunct written with
\* a capital letter
C13_Witness ==
  /\ Returned("filterObjects")
  /\ Len(objects) = 2
  /\ evaluateExpression(objects[1], arg.text) = RetBool(TRUE)
  /\ ret = Throw(QueryError \o InvalidCondition \o <<"Z","z">>)

(***************************************************************************)
(* Properties of the engine across calls (specification Spec).             *)
(***************************************************************************)
\* C14: after any sequence of setObjects, searchObjects and filterObjects
\* calls, raising ones included, filterObjects(q) returns what an engine
\* freshly constructed on the most recently set collection and the same key
\* field returns for q: nothing is carried from one call to the next.
C14_NoStateBetweenCalls ==
  Returned("filterObjects") => ret = filterObjects(lastObjects, Id, arg.text)

\* a structured query answered with a key on a collection of two records
C14_Witness ==
  /\ Returned("filterObjects")
  /\ ~Blank(arg.text) /\ ~PlainText(arg.text)
  /\ Len(lastObjects) = 2
  /\ ret.tag = "list"
  /\ Len(ret.list) = 1

(***************************************************************************)
(* Properties of searchObjects (specification Spec).                       *)
(***************************************************************************)
\* the terms of a search text: its maximal runs of characters that are not
\* white space, in lower case
TermsOf(q) ==
  LET l == ToLowerCase(q)
  IN  {SubSeq(l, i, Min({j \in i..Len(l) : j = Len(l) \/ IsSpace(l[j + 1])})) :
         i \in {k \in 1..Len(l) : ~IsSpace(l[k]) /\ (k = 1 \/ IsSpace(l[k - 1]))}}

\* the text of a field value: lower-cased and string-coerced, empty for null
\* and undefined
FieldText(v) == IF v.t \in {"null", "undefined"} THEN <<>> ELSE ToLowerCase(JsString(v))

\* the texts of all field values of a record, joined with sep
ValuesText(o, sep) == Join([i \in 1..Len(o) |-> FieldText(o[i].v)], sep)

\* C15 as stated: a record matches iff every term is a substring of the
\* concatenation of its field texts; with no terms every key is returned in
\* collection order.
C15_SearchConcatenation ==
  Returned("searchObjects") =>
    ret = RetList(KeysOf(LAMBDA o : \A t \in TermsOf(arg.text) : Includes(ValuesText(o, <<>>), t)))

\* C15 amended: a record matches iff every term is a substring of its field
\* texts joined with one space between them, so that no term matches across
\* two fields; with no terms every key is returned in collection order.
C15_SearchSpaceJoined ==
  Returned("searchObjects") =>
    ret = RetList(KeysOf(LAMBDA o : \A t \in TermsOf(arg.text) : Includes(ValuesText(o, <<" ">>), t)))

\* the term 1x on one record whose fields hold 1 and x in neighbouring
\* fields: the record is not returned
C15_Witness ==
  /\ Returned("searchObjects")
  /\ Len(objects) = 1
  /\ TermsOf(arg.text) = { <<"1","x">> }
  /\ Includes(ValuesText(objects[1], <<>>), <<"1","x">>)
  /\ ret = RetList(<<>>)

(***************************************************************************)
(* Properties of the documented operators (specification Spec).            *)
(***************************************************************************)
\* C16: `>=` means greater-than-or-equal: the query `field >= n` returns the
\* keys of exactly the records whose numeric field value is at least n.
C16_GreaterOrEqual ==
  \A n \in 1..2 :
    (Returned("filterObjects") /\ arg.text = GreaterEqualQuery(n)) =>
      ret = RetList(KeysOf(LAMBDA o : GetField(o, Id).t = "number" /\ GetField(o, Id).n >= n))


(***************************************************************************)
(* Properties of the widget's data management (specification SpecTable)    *)
(* and of its selection (specification SpecSelect).                        *)
(***************************************************************************)
\* no two records of d share the same String(primaryKey)
DistinctKeys(d, pk) ==
  \A i, j \in 1..Len(d) : i # j => RecordId(d[i], pk) # RecordId(d[j], pk)

\* addRecord, removeRecord, appendData and replaceData keep distinct keys
\* distinct
KeysStayDistinct ==
  [][(pc = "idle" /\ DistinctKeys(data, primaryKeyField))
       => DistinctKeys(data', primaryKeyField)]_vars

\* C17: starting from data with pairwise distinct keys, no step of addRecord,
\* appendData, replaceData or removeRecord makes two records share the same
\* String(primaryKey), and addRecord of a record that carries a key replaces
\* the record of that key in place when there is one and appends the record
\* when there is none.
C17_Upsert ==
  [][(pc = "idle" /\ DistinctKeys(data, primaryKeyField))
       => /\ DistinctKeys(data', primaryKeyField)
          /\ op' = "addRecord"
               => data' = Upsert(data, primaryKeyField, arg'.records[1])]_vars


\* d without its record at index
Without(d, index) ==
  [i \in 1..(Len(d) - 1) |-> IF i < index THEN d[i] ELSE d[i + 1]]

\* the indexes of the records of d whose key has the string form of id
Holders(d, pk, id) ==
  IF id.t \in {"null", "undefined"} THEN {}
  ELSE {i \in 1..Len(d) : JsString(GetField(d[i], pk)) = JsString(id)}

\* the records of d, in the order of d, that the query selects from d, and
\* all of d for a blank query or one that filterObjects rejects
Shown(d, pk, query) ==
  IF Trim(query) = <<>> \/ filterObjects(d, pk, query).tag = "throw" THEN d
  ELSE SelectSeq(d, LAMBDA o : ArrayIncludes(filterObjects(d, pk, query).list, GetField(o, pk)))

\* C18: removeRecord(id) for an id present in data removes exactly one
\* record, of that id, from data, removes the id from the selection,
\* re-applies the current query and returns the removed record; for a null
\* or undefined id or an id not present it returns false and leaves data,
\* filteredData, the selection and the engine's collection unchanged.
C18_RemoveRecord ==
  [][op' = "removeRecord"
       => IF Holders(data, primaryKeyField, arg'.value) # {}
            THEN /\ \E i \in Holders(data, primaryKeyField, arg'.value) :
                      /\ data' = Without(data, i)
                      /\ ret' = RetRecord(data[i])
                 /\ selectedRows' = selectedRows \ {JsString(arg'.value)}
                 /\ currentQuery' = currentQuery
                 /\ filteredData' = Shown(data', primaryKeyField, currentQuery)
                 /\ objects' = data'
            ELSE /\ ret' = RetBool(FALSE)
                 /\ UNCHANGED <<data, filteredData, selectedRows, objects, currentQuery>>]_vars

\* removeRecord has removed the second record of a filtered table on which
\* another row stays selected
C18_Witness ==
  /\ Returned("removeRecord")
  /\ ret.tag = "record"
  /\ data # <<>>
  /\ data[1] # ret.list[1]
  /\ selectedRows # {}
  /\ Trim(currentQuery) # <<>>
  /\ Len(filteredData) < Len(data)

\* removeRecord has refused an id that no record holds
C18_WitnessAbsent ==
  /\ Returned("removeRecord")
  /\ ret = RetBool(FALSE)
  /\ arg.value.t = "number"
  /\ data # <<>>
  /\ selectedRows # {}


\* every method but resetPagination leaves the engine with the widget's data
SyncKept ==
  [][(objects = data /\ op' # "resetPagination") => objects' = data']_vars

\* C19: after construction and after any sequence of addRecord,
\* removeRecord, appendData, replaceData, resetToLoading and resetPagination
\* the engine's objects are exactly the records of the widget's data, in the
\* same order.
C19_EngineInSync == objects = data


\* in single selection mode the row toggle and the row checkbox leave at
\* most one row selected
RowsStaySingle ==
  [][(~multiSelect /\ op' \in {"toggleIndividualRowSelection", "rowCheckboxChange"})
       => Cardinality(selectedRows') <= 1]_vars

\* C20: when multiSelect is false at most one row id is in selectedRows
\* after any sequence of row toggles, row checkbox changes, group-header
\* toggles and group checkbox changes.
C20_SingleSelection == ~multiSelect => Cardinality(selectedRows) <= 1


(***************************************************************************)
(* Properties of the rewrite loop (specification SpecRewriteLive).         *)
(***************************************************************************)
\* the number of parentheses of s
ParenCount(s) == Cardinality({i \in 1..Len(s) : s[i] \in {"(", ")"}})

StartsWith(s, p) == Len(p) <= Len(s) /\ SubSeq(s, 1, Len(p)) = p

\* the pass that gave r left strictly fewer parentheses than s had, or failed
Shrinks(r, s) == r.tag = "throw" \/ ParenCount(r.s) < ParenCount(s)

\* C22: evaluateExpression terminates for every record and every text, with
\* unbalanced, empty or mis-nested parentheses too: each pass of the rewrite
\* loop leaves strictly fewer parentheses, a call in the loop comes to its
\* end, and the call ends with a boolean or with an 'Invalid condition'
\* failure.
C22_RewriteTerminates ==
  /\ []((pc = "loop" /\ HasGroup(curExpression))
          => Shrinks(ReplaceGroups(obj, curExpression), curExpression))
  /\ []((pc = "done" /\ op = "evaluateExpression")
          => (ret.tag = "bool" \/ (ret.tag = "throw" /\ StartsWith(ret.s, InvalidCondition))))
  /\ (pc = "loop" ~> pc = "done")

\* the loop has made a pass over a text of unbalanced parentheses and another
\* pass is due
C22_Witness ==
  /\ pc = "loop"
  /\ HasGroup(curExpression)
  /\ ParenCount(curExpression) < ParenCount(arg.text)
  /\ ParenCount(curExpression) % 2 = 1


(***************************************************************************)
(* Properties of parseCondition (specification SpecCond).                  *)
(***************************************************************************)
\* the value that the coercion rules give for a value text: quoted text
\* unquoted, NULL, a boolean, the number the text denotes, or the text
RuledValue(v) ==
  LET t == Trim(v)
  IN  IF t # <<>> /\ Head(t) = "\"" /\ t[Len(t)] = "\"" THEN Str(SubSeq(t, 2, Len(t) - 1))
      ELSE IF t = <<"N","U","L","L">> THEN Null
      ELSE IF ToLowerCase(t) = <<"t","r","u","e">> THEN Bool(TRUE)
      ELSE IF ToLowerCase(t) = <<"f","a","l","s","e">> THEN Bool(FALSE)
      ELSE IF t # <<>> /\ StringToNumber(t).t = "number" THEN StringToNumber(t)
      ELSE Str(t)

\* C23: the comparison form of parseCondition coerces the value text by the
\* first rule that applies: quoted text becomes the unquoted string, NULL
\* becomes null, true and false in any letter case become booleans, a text
\* that denotes a finite number becomes that number, anything else stays the
\* trimmed text; a text of neither form raises 'Invalid condition: ' and the
\* text.
C23_ValueCoercion ==
  Returned("parseCondition")
    => /\ \A o \in CompareOperators, v \in ValueTexts :
            arg.text = CompareText(<<"a">>, o.text, v)
              => ret = RetCond(Cond(<<"a">>, o.name, RuledValue(v)))
       /\ arg.text \in NeitherTexts => ret = Throw(InvalidCondition \o arg.text)


\* the rules hold for every value text that is no hexadecimal literal
DecimalCoercion ==
  Returned("parseCondition")
    => /\ \A o \in CompareOperators, v \in {w \in ValueTexts : ~IsHexLiteral(Trim(w))} :
            arg.text = CompareText(<<"a">>, o.text, v)
              => ret = RetCond(Cond(<<"a">>, o.name, RuledValue(v)))
       /\ arg.text \in NeitherTexts => ret = Throw(InvalidCondition \o arg.text)


\* the entry that the rules give for an item text: the bare token NULL is
\* null, any other text is trimmed and loses the quotes around it
RuledItem(v) ==
  LET t == Trim(v)
  IN  IF t = <<"N","U","L","L">> THEN Null
      ELSE IF Len(t) > 1 /\ Head(t) = "\"" /\ t[Len(t)] = "\"" THEN Str(SubSeq(t, 2, Len(t) - 1))
      ELSE Str(t)

\* the item texts with a quote only around them and no quoted NULL
PlainItems ==
  {v \in ItemTexts : RuledItem(v) = Null \/ ("\"" \notin Range(RuledItem(v).s)
                                              /\ RuledItem(v).s # <<"N","U","L","L">>)}

\* the rules hold for lists of plain items
PlainItemsParsed ==
  Returned("parseCondition")
    => \A items \in UNION {[1..n -> PlainItems] : n \in 1..MaxItems} :
         arg.text = InText(<<"t">>, items)
           => ret = RetCond(Cond(<<"t">>, "IN", Arr([i \in 1..Len(items) |-> RuledItem(items[i])])))

\* C24: the IN form of parseCondition yields the operator IN and a list with
\* one entry per comma-separated item, in order, each trimmed and stripped
\* only of the double quotes around it, and exactly the bare token NULL (not
\* a quoted "NULL", not a text with quotes inside) becomes null.
C24_InItems ==
  Returned("parseCondition")
    => \A items \in UNION {[1..n -> ItemTexts] : n \in 1..MaxItems} :
         arg.text = InText(<<"t">>, items)
           => ret = RetCond(Cond(<<"t">>, "IN", Arr([i \in 1..Len(items) |-> RuledItem(items[i])])))


\* the keys of the records of objs that one of the queries `f = v`, v in vs,
\* selects, in the order of objs
UnionOfEquals(objs, pk, f, vs) ==
  AllKeys(SelectSeq(objs, LAMBDA o : \E i \in 1..Len(vs) :
                            evaluateExpression(o, EqualQuery(f, vs[i])) = RetBool(TRUE)), pk)

\* what filterObjects returned for `f IN [vs]` is the union for the lists
\* drawn from the literals lits
InIsUnion(lits) ==
  Returned("filterObjects")
    => \A f \in LiteralFields : \A vs \in UNION {[1..n -> lits] : n \in 1..MaxItems} :
         arg.text = InQuery(f, vs) => ret = RetList(UnionOfEquals(objects, primaryKeyField, f, vs))

\* the union holds for quoted strings that are not digits
QuotedInIsUnion == InIsUnion({v \in LiteralTexts : Head(v) = "\"" /\ ~IsDigit(v[2])})

\* C30: for every collection, field f and non-null literals v1..vn (numbers or
\* quoted strings), `f IN [v1, ..., vn]` selects the union of the records
\* that `f = v1`, ..., `f = vn` select; `f IN [v]` selects what `f = v` does.
C30_InIsUnionOfEquals == InIsUnion(LiteralTexts)


\* the records of d, in the order of d, whose primary key is one of keys
KeyedIn(d, pk, keys) == SelectSeq(d, LAMBDA o : GetField(o, pk) \in Range(keys))

\* C29: applyQuery never raises: for a blank query, or a query for which
\* filterObjects raises, filteredData becomes a copy of all of data;
\* otherwise filteredData is exactly the records of data, in data order,
\* whose primary key is in the list filterObjects returned; currentQuery is
\* set to the query and data is unchanged.
C29_ApplyQuery ==
  [][op' = "applyQuery"
       => /\ ret' = NoRet
          /\ currentQuery' = arg'.text
          /\ data' = data
          /\ filteredData' =
               IF Blank(arg'.text) \/ filterObjects(objects, primaryKeyField, arg'.text).tag = "throw"
                 THEN data
                 ELSE KeyedIn(data, primaryKeyField,
                              filterObjects(objects, primaryKeyField, arg'.text).list)]_vars

\* a query that filterObjects accepts has kept some records and dropped others
C29_Witness ==
  /\ Returned("applyQuery")
  /\ ~Blank(arg.text)
  /\ filterObjects(objects, primaryKeyField, arg.text).tag = "list"
  /\ filteredData # <<>>
  /\ Len(filteredData) < Len(data)

\* a query that filterObjects rejects has left all of data shown
C29_WitnessRaised ==
  /\ Returned("applyQuery")
  /\ filterObjects(objects, primaryKeyField, arg.text).tag = "throw"
  /\ filteredData = data
  /\ data # <<>>


\* sort(field) without a direction on the currently sorted field toggles
\* between asc and desc, and sort on another field takes the field and the
\* direction given, asc when none is given
SortTogglesOrTakes ==
  [][op' = "sort"
       => IF sortColumn = arg'.text
            THEN (arg'.value = Undefined
                    => sortColumn' = sortColumn /\ sortDirection' # sortDirection)
            ELSE sortColumn' = arg'.text /\ sortDirection' = DirectionName(arg'.value)]_vars

\* C21: sort(field, direction) called with an explicit direction 'asc' or
\* 'desc' leaves the widget sorted by that field in that direction whatever
\* the previous sort state was, and sort(field) without a direction on the
\* currently sorted field toggles between asc and desc.
C21_Sort ==
  [][op' = "sort"
       => /\ arg'.value # Undefined
               => sortColumn' = arg'.text /\ sortDirection' = DirectionName(arg'.value)
          /\ (arg'.value = Undefined /\ sortColumn = arg'.text)
               => sortColumn' = sortColumn /\ sortDirection' # sortDirection]_vars


C26_OneLoop == Loops <= 1


\* C27: if onNextPage throws or rejects while auto-fetch is running,
\* auto-fetch stops and no further onNextPage request is issued until the
\* user starts auto-fetch or scrolls again.
C27_NoRequestAfterFailure ==
  [][(failedRun /\ failedRun') => Len(requests') <= Len(requests)]_vars

\* the last page has come while auto-fetch runs unpaused
LastPageCame == isAutoFetching /\ ~autoFetchPaused /\ ~hasMoreData

AutoFetchEnded == ~hasMoreData /\ ~isAutoFetching /\ ~autoFetchPaused /\ ~isLoading

\* no call of onNextPage is outstanding and the timer of init has fired
Quiet == requests = <<>> /\ startup = "none"

\* the refresh handler awaits its first page
Refreshing == \E i \in DOMAIN requests : requests[i].kind = "refresh"

C28_WitnessTimer == LastPageCame /\ Quiet /\ ~resumed /\ timers > 0

====
